---- MODULE Spec2Model ----
(***************************************************************************)
(* Model of the build-and-notify pipeline (app.py, handler.py), of the     *)
(* GitHub functions of coding_agent.py, of the reviewer                    *)
(* (core/reviewer_agent.py) and of the LLM code generation service         *)
(* (core/llm_service.py) of ninkkka/coding-agent.                          *)
(*                                                                         *)
(* Spec          one execution of handle_build_request against a GitHub    *)
(*               account, the Gemini model, GitHub Pages and the           *)
(*               evaluation URL, every call answered nondeterministically. *)
(* FairSpec      Spec with weak fairness of the execution's steps.         *)
(* FairSpecHang  FairSpec with services that may never answer a call.      *)
(* SpecLLM       calls of generate_code_changes on bounded inputs.         *)
(* SpecTwice     create_or_update_repo and apply_code_changes called a     *)
(*               second time with the same artifact.                       *)
(* SpecApp       one request to /api-endpoint and the execution it starts. *)
(* SpecConc      two executions in two threads, for different tasks.       *)
(* SpecSame      two executions in two threads, for the same task, with    *)
(*               services that do not fail of their own.                   *)
(* SpecLoop      the attempt loop of section 4.1 of the specification.     *)
(* FairSpecLoop  SpecLoop with weak fairness of the steps of the loop.     *)
(* SpecVerdict   calls of get_latest_ai_review_verdict on bounded pull     *)
(*               requests.                                                 *)
(* SpecGit       calls of create_branch, create_pull_request and           *)
(*               update_pull_request on one repository.                    *)
(* SpecCI        calls of the two copies of check_ci_status.               *)
(* SpecReview    one pull request: the revisions the coding side           *)
(*               publishes, the runs of the reviewer (reviewer_agent.py)   *)
(*               and the verdicts the coding side reads back.              *)
(***************************************************************************)
EXTENDS Integers, Sequences, FiniteSets, TLC

\* ------------------------------------------------------------------ bounds

\* Largest round number of an accepted task (rounds are 1..MaxRound).
MaxRound == 2

\* Largest number of entries in the "changes" list of an LLM reply.
MaxChanges == 2

\* --------------------------------------------------------- program constants

\* range(5) of notify_evaluation_url.
NotifyAttempts == 5

\* time.sleep(20) of handle_build_request.
SettleSeconds == 20

\* ------------------------------------------------------------------- state

VARIABLES
    \* the GitHub account and the hosting layer
    repoExists,       \* the repository named after the task exists
    repoFiles,        \* path -> content of the files committed to it
    repoHead,         \* number of commits on main (stands for the commit sha)
    pagesEnabled,     \* GitHub Pages is enabled for the repository
    \* handle_build_request and the functions it calls
    pc,               \* position of the execution
    task_details,     \* the accepted request body
    existing_code,    \* prior index.html, or None
    generated_files,  \* ordered dict path -> content, as a sequence of entries
    is_new_repo,      \* flag of create_or_update_repo
    file_idx,         \* position of the for loop over files.items()
    existing_file,    \* result of the last get_contents of that loop
    repo_info,        \* return value of create_or_update_repo
    notify_i,         \* loop variable i of notify_evaluation_url
    payload,          \* the notification payload
    \* what an observer of the execution sees
    steps,            \* the steps started, in order
    returned,         \* the steps that returned normally
    raised,           \* the exception that left a step, or None
    report,           \* what the execution printed last: none / fatal / success
    escaped,          \* an exception left handle_build_request
    genOutcome,       \* how the Gemini call of this execution ended
    artifact,         \* the dict generate_code_with_gemini returned
    fetchOutcome,     \* how the context fetch ended
    ghCalls,          \* the write/read calls made on the repository, in order
    sleeps,           \* the time.sleep calls made, in order
    posts,            \* the POSTs made to the evaluation URL, in order
    pagesAnswer,      \* what the Pages API answered to enable_github_pages
    \* core/llm_service.py
    llm,              \* one call of generate_code_changes
    \* coding_agent.py
    apply,            \* one call of apply_code_changes
    \* a publish function called a second time with the same artifact
    twice,
    \* app.py
    app,              \* one request to /api-endpoint and its response
    \* two executions of handle_build_request in two threads
    conc,
    \* the libraries the calls go through
    lib,              \* whether the Gemini client gives up on a silent server
    \* the attempt loop over coding_agent.py
    loop,             \* one run of the AttemptLoop for a task
    \* coding_agent.py and core/github_client.py
    verd,             \* one call of get_latest_ai_review_verdict
    git,              \* branches and pull requests of a repository, and the
                      \* calls of create_branch, create_pull_request and
                      \* update_pull_request made on it
    \* core/reviewer_agent.py and coding_agent.py
    ci,               \* one call of check_ci_status
    rev               \* one pull request, the runs of the reviewer on it and
                      \* the verdicts the coding side reads back

ghVars == <<repoExists, repoFiles, repoHead, pagesEnabled>>
localVars == <<task_details, existing_code, generated_files, is_new_repo,
               file_idx, existing_file, repo_info, notify_i, payload>>
obsVars == <<steps, returned, raised, report, escaped, genOutcome, artifact,
             fetchOutcome, ghCalls, sleeps, posts, pagesAnswer>>
\* The state of the other specifications of this module.
toolVars == <<verd, git, ci, rev>>
auxVars == <<llm, apply, twice, app, conc, lib, loop, toolVars>>
vars == <<ghVars, pc, localVars, obsVars, auxVars>>

\* Python's None, and a value that is not None.
None == [some |-> FALSE]
Some(v) == [some |-> TRUE, value |-> v]

\* No exception has left a step.
NoException == [step |-> "none", exc |-> "none"]

\* ------------------------------------------------------------- file contents

Paths == <<"index.html", "README.md", "LICENSE">>

\* A text is the sequence of its lines.
OldHtml == <<"<!doctype html>", "<body>round 1</body>">>
OldText == <<"old">>
NewHtml == <<"<!doctype html>", "<body>app</body>">>

SafeErrorHtmlMissing == <<>>
\* safe_error_html of generate_code_with_gemini (lines 223-241).
safe_error_html ==
    <<"<!doctype html>", "<!-- Gemini generation failed -->",
      "<h1>Auto-generation failed</h1>", "</html>">>

readme_content == <<"# Project", "## Summary", "## License">>
license_content == <<"MIT License">>

\* ------------------------------------------------------------- exceptions

\* The exception classes that occur, each with its base class.
Base(exc) ==
    CASE exc = "UnknownObjectException" -> "GithubException"
      [] exc = "HTTPError" -> "RequestException"
      [] exc = "ConnectionError" -> "RequestException"
      [] exc = "JSONDecodeError" -> "ValueError"
      [] exc = "Exception" -> "BaseException"
      [] exc = "SystemExit" -> "BaseException"
      [] exc = "BaseException" -> "BaseException"
      [] OTHER -> "Exception"

\* except handler catches exc: exc is handler or a subclass of it.
Catches(handler, exc) ==
    \/ exc = handler
    \/ Base(exc) = handler
    \/ Base(Base(exc)) = handler
    \/ Base(Base(Base(exc))) = handler

TopLevelCatchesNarrow(exc) == Catches("GithubException", exc)
\* except Exception as e of handle_build_request.
TopLevelCatches(exc) == Catches("Exception", exc)

\* An exception exc leaves step step of handle_build_request: the top-level
\* handler prints the fatal report, or the exception leaves the function.
Raise(step, exc) ==
    /\ raised' = [step |-> step, exc |-> exc]
    /\ IF TopLevelCatches(exc)
         THEN /\ pc' = "fatal"
              /\ report' = "fatal"
              /\ escaped' = FALSE
         ELSE /\ pc' = "escaped"
              /\ report' = report
              /\ escaped' = TRUE

NoRaise == UNCHANGED <<raised, escaped>>

Idle == [phase |-> "idle"]

\* apply_code_changes is not running.
ApplyIdle == [pc |-> "idle"]

\* No publish function is called a second time.
TwiceIdle == [fn |-> "none", call |-> 1]

\* The execution was not started by a request of the model.
AppIdle == [phase |-> "idle"]

\* No second thread runs.
ConcIdle == [phase |-> "idle"]

\* Every service answers every call.
LibIdle == [genai_blocks |-> FALSE]

\* No AttemptLoop runs.
LoopIdle == [pc |-> "idle"]

\* No call of get_latest_ai_review_verdict is under way.
VerdIdle == [phase |-> "idle"]

\* No repository is worked on by the branch and pull request functions.
GitIdle == [phase |-> "idle"]

\* No call of check_ci_status is under way.
CiIdle == [phase |-> "idle"]

\* No pull request is under review.
RevIdle == [pc |-> "none"]

ReviewIdle == ci = CiIdle /\ rev = RevIdle

\* The functions of coding_agent.py and reviewer_agent.py that are checked on
\* their own are idle.
ToolsIdle == verd = VerdIdle /\ git = GitIdle /\ ReviewIdle

\* ------------------------------------------------------------------- Init

Attachments == {"none", "data_urls", "not_a_dict"}

Nonces == {"nonce-1", "nonce-2"}

\* The request bodies of accepted tasks, by the keys the execution reads.
TaskBodies ==
    [task : {"task"}, email : {"student@example.com"}, nonce : Nonces,
     round : 1..MaxRound, round_is_int : BOOLEAN, attachments : Attachments]

\* The task of the specifications that start no execution from a request.
IdleTask ==
    [task |-> "task", email |-> "student@example.com", nonce |-> "nonce-1",
     round |-> 1, round_is_int |-> TRUE, attachments |-> "none"]

InitRepo ==
    \/ /\ repoExists = FALSE
       /\ repoFiles = [p \in {} |-> <<>>]
       /\ repoHead = 0
    \/ /\ repoExists = TRUE
       /\ \E n \in 0..Len(Paths) :
            repoFiles = [p \in {Paths[k] : k \in 1..n} |->
                            IF p = "index.html" THEN OldHtml ELSE OldText]
       /\ repoHead = IF DOMAIN repoFiles = {} THEN 0 ELSE 1

\* The thread of an accepted request is started.
InitExecution ==
    /\ InitRepo
    /\ pagesEnabled \in (IF repoExists THEN BOOLEAN ELSE {FALSE})
    /\ pc = "start"
    /\ task_details \in TaskBodies
    /\ existing_code = None
    /\ generated_files = <<>>
    /\ is_new_repo = FALSE
    /\ file_idx = 0
    /\ existing_file = None
    /\ repo_info = None
    /\ notify_i = 0
    /\ payload = None
    /\ steps = <<>>
    /\ returned = {}
    /\ raised = NoException
    /\ report = "none"
    /\ escaped = FALSE
    /\ genOutcome = "none"
    /\ artifact = <<>>
    /\ fetchOutcome = "none"
    /\ ghCalls = <<>>
    /\ sleeps = <<>>
    /\ posts = <<>>
    /\ pagesAnswer = None
    /\ llm = Idle
    /\ apply = ApplyIdle
    /\ twice = TwiceIdle
    /\ app = AppIdle
    /\ conc = ConcIdle

Init ==
    /\ InitExecution
    /\ lib = LibIdle
    /\ loop = LoopIdle
    /\ ToolsIdle

\* ------------------------------------------------- handle_build_request

FetchesPriorAlways(round) == TRUE
\* Line 33: if int(task_details['round']) > 1.
FetchesPrior(round) == round > 1

\* Lines 27-33: the round check that guards the context fetch.
Start ==
    /\ pc = "start"
    /\ IF ~task_details.round_is_int
         THEN /\ Raise("round", "ValueError")
         ELSE /\ pc' = IF FetchesPrior(task_details.round) THEN "fetch" ELSE "generate"
              /\ UNCHANGED report
              /\ NoRaise
    /\ UNCHANGED <<ghVars, localVars, steps, returned, genOutcome, artifact, fetchOutcome,
                   ghCalls, sleeps, posts, pagesAnswer, auxVars>>

\* Lines 34-40: get_repo, get_contents and decode under except Exception.
Fetch ==
    /\ pc = "fetch"
    /\ steps' = Append(steps, "fetch")
    /\ \/ /\ repoExists
          /\ "index.html" \in DOMAIN repoFiles
          /\ existing_code' = Some(repoFiles["index.html"])
          /\ fetchOutcome' = "found"
       \/ \* UnknownObjectException (no repository, no index.html) or any
          \* other failure of the two calls: swallowed by the inner handler.
          /\ existing_code' = None
          /\ fetchOutcome' = "failed"
    /\ returned' = returned \cup {"fetch"}
    /\ pc' = "generate"
    /\ NoRaise
    /\ UNCHANGED <<ghVars, task_details, generated_files, is_new_repo, file_idx,
                   existing_file, repo_info, notify_i, payload, report,
                   genOutcome, artifact, ghCalls, sleeps, posts, pagesAnswer, auxVars>>

\* --------------------------------------------- generate_code_with_gemini

\* A line that starts with a code fence (three backquotes, written <fence>).
IsFence(line) == line \in {"<fence>", "<fence>html"}

\* Lines 212-220: drop a leading html fence line and a trailing fence line.
StripFences(code) ==
    IF code # <<>> /\ code[1] = "<fence>html"
      THEN LET lines == Tail(code)
           IN IF lines # <<>> /\ IsFence(lines[Len(lines)])
                THEN SubSeq(lines, 1, Len(lines) - 1)
                ELSE lines
      ELSE code

\* What the model call can do: answer with a text, raise in the call, or
\* hand back a response whose post-processing raises.
GeminiOutcomes ==
    {[kind |-> "text", reply |-> r] :
        r \in {NewHtml, <<"<fence>html">> \o NewHtml \o <<"<fence>">>, <<"<fence>html", "<fence>">>}}
    \cup {[kind |-> "raise_call", reply |-> <<>>],
          [kind |-> "raise_post", reply |-> <<>>]}

GeminiTryCoversCallOnly(phase) == phase = "call"
\* Lines 206-221: the try block holds the model call and the post-processing.
GeminiTryCovers(phase) == phase \in {"call", "post"}

\* generate_code_with_gemini: the exception it raises, or the dict it returns.
generate_code_with_gemini(attachments, outcome) ==
    IF attachments = "not_a_dict"
      THEN \* att.get(...) on a non-dict attachment, outside every try
           [raises |-> TRUE, exc |-> "AttributeError", files |-> <<>>]
      ELSE LET failed == outcome.kind # "text"
               phase == IF outcome.kind = "raise_call" THEN "call" ELSE "post"
               code == IF failed THEN safe_error_html
                                 ELSE StripFences(outcome.reply)
           IN IF failed /\ ~GeminiTryCovers(phase)
                THEN [raises |-> TRUE, exc |-> "GeminiError", files |-> <<>>]
                ELSE [raises |-> FALSE, exc |-> "none",
                      files |-> <<[path |-> "index.html", content |-> code],
                                  [path |-> "README.md", content |-> readme_content],
                                  [path |-> "LICENSE", content |-> license_content]>>]

\* Lines 43-50.
Generate ==
    /\ pc = "generate"
    /\ steps' = Append(steps, "generate")
    /\ \E outcome \in GeminiOutcomes :
         LET r == generate_code_with_gemini(task_details.attachments, outcome)
         IN /\ genOutcome' = IF task_details.attachments = "not_a_dict"
                               THEN "not_called" ELSE outcome.kind
            /\ IF r.raises
                 THEN /\ Raise("generate", r.exc)
                      /\ UNCHANGED <<generated_files, artifact, returned>>
                 ELSE /\ generated_files' = r.files
                      /\ artifact' = r.files
                      /\ returned' = returned \cup {"generate"}
                      /\ pc' = "pub_get_repo"
                      /\ UNCHANGED report
                      /\ NoRaise
    /\ UNCHANGED <<ghVars, task_details, existing_code, is_new_repo, file_idx,
                   existing_file, repo_info, notify_i, payload, fetchOutcome,
                   ghCalls, sleeps, posts, pagesAnswer, auxVars>>

\* ------------------------------------------------- create_or_update_repo

Call(op, path) == [op |-> op, path |-> path]

\* The frame of every step of create_or_update_repo.
PubFrame ==
    UNCHANGED <<pagesEnabled, task_details, existing_code, notify_i, payload,
                genOutcome, artifact, fetchOutcome, sleeps, posts, pagesAnswer, auxVars>>

\* Lines 286-290: get_repo under except UnknownObjectException.
PubGetRepo ==
    /\ pc = "pub_get_repo"
    /\ steps' = Append(steps, "publish")
    /\ ghCalls' = Append(ghCalls, Call("get_repo", "task"))
    /\ \/ /\ repoExists
          /\ pc' = "pub_files"
          /\ file_idx' = 1
          /\ UNCHANGED report
          /\ NoRaise
       \/ /\ ~repoExists
          /\ pc' = "pub_create_repo"
          /\ UNCHANGED <<file_idx, report>>
          /\ NoRaise
       \/ /\ Raise("publish", "GithubException")
          /\ UNCHANGED file_idx
    /\ UNCHANGED <<repoExists, repoFiles, repoHead, generated_files, is_new_repo,
                   existing_file, repo_info, returned>>
    /\ PubFrame

\* Lines 291-292: create_repo.
PubCreateRepo ==
    /\ pc = "pub_create_repo"
    /\ ghCalls' = Append(ghCalls, Call("create_repo", "task"))
    /\ \/ /\ ~repoExists
          /\ repoExists' = TRUE
          /\ repoFiles' = [p \in {} |-> <<>>]
          /\ repoHead' = 0
          /\ is_new_repo' = TRUE
          /\ pc' = "pub_first"
          /\ UNCHANGED report
          /\ NoRaise
       \/ /\ Raise("publish", "GithubException")
          /\ UNCHANGED <<repoExists, repoFiles, repoHead, is_new_repo>>
    /\ UNCHANGED <<generated_files, file_idx, existing_file, repo_info, returned,
                   steps>>
    /\ PubFrame

CreateFileLost(path, content) ==
    /\ repoFiles' = repoFiles
    /\ repoHead' = repoHead + 1
    /\ UNCHANGED report
    /\ NoRaise

\* repo.create_file on the repository: a path that exists is refused.
CreateFile(path, content) ==
    \/ /\ path \notin DOMAIN repoFiles
       /\ repoFiles' = (path :> content) @@ repoFiles
       /\ repoHead' = repoHead + 1
       /\ UNCHANGED report
       /\ NoRaise
    \/ /\ Raise("publish", "GithubException")
       /\ UNCHANGED <<repoFiles, repoHead>>

\* Lines 299-303: the first file of a new repository, popped from the dict.
PubFirst ==
    /\ pc = "pub_first"
    /\ LET first_file_path == generated_files[1].path
           first_file_content == generated_files[1].content
       IN /\ generated_files' = Tail(generated_files)
          /\ ghCalls' = Append(ghCalls, Call("create_file", first_file_path))
          /\ CreateFile(first_file_path, first_file_content)
          /\ IF raised' = raised
               THEN pc' = "pub_files" /\ file_idx' = 1
               ELSE UNCHANGED file_idx
    /\ UNCHANGED <<repoExists, is_new_repo, existing_file, repo_info, returned,
                   steps>>
    /\ PubFrame

GetContentsFindsAlways(path) == TRUE
\* repo.get_contents(path) answers with the file when the path is committed,
\* and raises UnknownObjectException otherwise (line 308).
GetContentsFinds(path) == path \in DOMAIN repoFiles

\* Lines 306-308: the next file of the loop, and get_contents for it under
\* except UnknownObjectException.
PubGetContents ==
    /\ pc = "pub_files"
    /\ file_idx <= Len(generated_files)
    /\ LET path == generated_files[file_idx].path
       IN /\ ghCalls' = Append(ghCalls, Call("get_contents", path))
          /\ \/ /\ GetContentsFinds(path)
                /\ existing_file' = Some(path)
                /\ pc' = "pub_update"
                /\ UNCHANGED report
                /\ NoRaise
             \/ /\ ~GetContentsFinds(path)
                /\ existing_file' = None
                /\ pc' = "pub_create"
                /\ UNCHANGED report
                /\ NoRaise
             \/ /\ Raise("publish", "GithubException")
                /\ UNCHANGED existing_file
    /\ UNCHANGED <<repoExists, repoFiles, repoHead, generated_files, is_new_repo,
                   file_idx, repo_info, returned, steps>>
    /\ PubFrame

UpdateFileKeepsOld(old, new) == old
\* repo.update_file(path, message, content, sha): the committed content of
\* the path becomes the content passed (line 310).
UpdateFile(old, new) == new

\* Lines 309-310: update_file with the sha get_contents returned.
PubUpdate ==
    /\ pc = "pub_update"
    /\ LET path == generated_files[file_idx].path
           content == generated_files[file_idx].content
       IN /\ ghCalls' = Append(ghCalls, Call("update_file", path))
          /\ \/ /\ path \in DOMAIN repoFiles
                /\ repoFiles' = [repoFiles EXCEPT
                                   ![path] = UpdateFile(repoFiles[path], content)]
                /\ repoHead' = repoHead + 1
                /\ file_idx' = file_idx + 1
                /\ pc' = "pub_files"
                /\ UNCHANGED report
                /\ NoRaise
             \/ /\ Raise("publish", "GithubException")
                /\ UNCHANGED <<repoFiles, repoHead, file_idx>>
    /\ UNCHANGED <<repoExists, generated_files, is_new_repo, existing_file,
                   repo_info, returned, steps>>
    /\ PubFrame

\* Lines 311-313: create_file in the handler of UnknownObjectException.
PubCreate ==
    /\ pc = "pub_create"
    /\ LET path == generated_files[file_idx].path
           content == generated_files[file_idx].content
       IN /\ ghCalls' = Append(ghCalls, Call("create_file", path))
          /\ CreateFile(path, content)
          /\ IF raised' = raised
               THEN pc' = "pub_files" /\ file_idx' = file_idx + 1
               ELSE UNCHANGED file_idx
    /\ UNCHANGED <<repoExists, generated_files, is_new_repo, existing_file,
                   repo_info, returned, steps>>
    /\ PubFrame

\* Lines 316-324: get_branch('main') and the returned dict.
PubBranch ==
    /\ pc = "pub_files"
    /\ file_idx > Len(generated_files)
    /\ ghCalls' = Append(ghCalls, Call("get_branch", "main"))
    /\ \/ /\ repoHead > 0
          /\ repo_info' = Some([owner |-> "owner", repo_name |-> "task",
                                repo_url |-> "https://github.com/owner/task",
                                commit_sha |-> repoHead])
          /\ returned' = returned \cup {"publish"}
          /\ pc' = "pages"
          /\ UNCHANGED report
          /\ NoRaise
       \/ /\ Raise("publish", "GithubException")
          /\ UNCHANGED <<repo_info, returned>>
    /\ UNCHANGED <<repoExists, repoFiles, repoHead, generated_files, is_new_repo,
                   file_idx, existing_file, steps>>
    /\ PubFrame

\* --------------------------------------------------- enable_github_pages

\* What the POST to the Pages API can be answered with.
PagesAnswers ==
    {[exc |-> "none", status |-> IF pagesEnabled THEN 409 ELSE 201],
     [exc |-> "none", status |-> 422],
     [exc |-> "none", status |-> 500],
     [exc |-> "ConnectionError", status |-> 0]}

\* requests' Response.raise_for_status.
RaiseForStatus(status) == 400 <= status /\ status < 600

EnablePagesRaisesNever(status) == FALSE
EnablePagesRaisesOn409(status) ==
    /\ ~(200 <= status /\ status < 300)
    /\ RaiseForStatus(status)
\* Lines 341-347: 2xx and 409 return, anything else goes to raise_for_status.
EnablePagesRaises(status) ==
    /\ ~(200 <= status /\ status < 300)
    /\ status # 409
    /\ RaiseForStatus(status)

\* Lines 61-64 and enable_github_pages.
EnablePages ==
    /\ pc = "pages"
    /\ steps' = Append(steps, "pages")
    /\ \E answer \in PagesAnswers :
         /\ pagesAnswer' = Some(answer)
         /\ pagesEnabled' = (pagesEnabled \/ (answer.exc = "none" /\ answer.status = 201))
         /\ IF answer.exc # "none"
              THEN Raise("pages", answer.exc) /\ UNCHANGED returned
              ELSE IF EnablePagesRaises(answer.status)
                     THEN Raise("pages", "HTTPError") /\ UNCHANGED returned
                     ELSE /\ returned' = returned \cup {"pages"}
                          /\ pc' = "settle"
                          /\ UNCHANGED report
                          /\ NoRaise
    /\ UNCHANGED <<repoExists, repoFiles, repoHead, localVars, genOutcome, artifact,
                   fetchOutcome, ghCalls, sleeps, posts, auxVars>>

\* Lines 66-68: time.sleep(20).
Settle ==
    /\ pc = "settle"
    /\ steps' = Append(steps, "settle")
    /\ sleeps' = Append(sleeps, [at |-> "settle", secs |-> SettleSeconds])
    /\ returned' = returned \cup {"settle"}
    /\ pc' = "notify_call"
    /\ NoRaise
    /\ UNCHANGED <<ghVars, localVars, report, genOutcome, artifact, fetchOutcome, ghCalls,
                   posts, pagesAnswer, auxVars>>

PagesUrlSwapped(owner, repo_name) ==
    <<"https://", repo_name, ".github.io/", owner, "/">>
\* Line 72: the address of the site from the owner and the repository name.
PagesUrl(owner, repo_name) == <<"https://", owner, ".github.io/", repo_name, "/">>

\* Lines 73-81: the payload dict.
Payload(task, info) ==
    [email |-> task.email, task |-> task.task, round |-> task.round,
     nonce |-> task.nonce, repo_url |-> info.repo_url,
     commit_sha |-> info.commit_sha,
     pages_url |-> PagesUrl(info.owner, info.repo_name)]

\* Lines 70-82: the payload, and the call of notify_evaluation_url.
NotifyCall ==
    /\ pc = "notify_call"
    /\ steps' = Append(steps, "notify")
    /\ payload' = Some(Payload(task_details, repo_info.value))
    /\ notify_i' = 0
    /\ pc' = "notify"
    /\ NoRaise
    /\ UNCHANGED <<ghVars, task_details, existing_code, generated_files,
                   is_new_repo, file_idx, existing_file, repo_info, returned,
                   report, genOutcome, artifact, fetchOutcome, ghCalls, sleeps, posts, pagesAnswer, auxVars>>

\* ------------------------------------------------- notify_evaluation_url

\* What a POST to the evaluation URL can be answered with.
SinkAnswers ==
    {[exc |-> "none", status |-> 200],
     [exc |-> "none", status |-> 500],
     [exc |-> "ConnectionError", status |-> 0]}

DelayLinear(i) == 2 * i
DelayShifted(i) == 2 ^ (i + 1)
\* Line 353: delay = 2**i.
Delay(i) == 2 ^ i

NotifyCatchesNothing(exc) == FALSE
\* Line 361: except requests.exceptions.RequestException.
NotifyCatches(exc) == Catches("RequestException", exc)

NotifySucceedsLenient(status) == status >= 200
\* Line 357: response.status_code == 200.
NotifySucceeds(status) == status = 200

NotifyRangeSix == 0 .. NotifyAttempts
\* Line 351: range(5).
NotifyRange == 0 .. (NotifyAttempts - 1)

\* Lines 351-362: one iteration of the loop: sleep, POST, look at the answer.
NotifyAttempt ==
    /\ pc = "notify"
    /\ notify_i \in NotifyRange
    /\ sleeps' = Append(sleeps, [at |-> "notify", secs |-> Delay(notify_i)])
    /\ \E answer \in SinkAnswers :
         /\ posts' = Append(posts, [answer |-> answer, payload |-> payload.value,
                                    sleeps |-> Len(sleeps')])
         /\ IF answer.exc # "none"
              THEN IF NotifyCatches(answer.exc)
                     THEN /\ notify_i' = notify_i + 1
                          /\ UNCHANGED <<pc, report, returned>>
                          /\ NoRaise
                     ELSE /\ Raise("notify", answer.exc)
                          /\ UNCHANGED <<notify_i, returned>>
              ELSE IF NotifySucceeds(answer.status)
                     THEN \* return, then lines 83-85
                          /\ pc' = "done"
                          /\ report' = "success"
                          /\ returned' = returned \cup {"notify"}
                          /\ UNCHANGED notify_i
                          /\ NoRaise
                     ELSE /\ notify_i' = notify_i + 1
                          /\ UNCHANGED <<pc, report, returned>>
                          /\ NoRaise
    /\ UNCHANGED <<ghVars, task_details, existing_code, generated_files,
                   is_new_repo, file_idx, existing_file, repo_info, payload,
                   steps, genOutcome, artifact, fetchOutcome, ghCalls, pagesAnswer, auxVars>>

\* Line 363: the loop is over and no attempt returned.
NotifyExhausted ==
    /\ pc = "notify"
    /\ notify_i \notin NotifyRange
    /\ Raise("notify", "Exception")
    /\ UNCHANGED <<ghVars, localVars, steps, returned, genOutcome, artifact, fetchOutcome,
                   ghCalls, sleeps, posts, pagesAnswer, auxVars>>

Next ==
    \/ Start
    \/ Fetch
    \/ Generate
    \/ PubGetRepo
    \/ PubCreateRepo
    \/ PubFirst
    \/ PubGetContents
    \/ PubUpdate
    \/ PubCreate
    \/ PubBranch
    \/ EnablePages
    \/ Settle
    \/ NotifyCall
    \/ NotifyAttempt
    \/ NotifyExhausted

Spec == Init /\ [][Next]_vars

\* The background thread keeps running: a step that can be taken is taken.
FairSpec == Spec /\ WF_vars(Next)

\* -------------------------------------------- a service that never answers

\* The timeout each call of an external service is made with, in seconds:
\* timeout=15 of the POST to the evaluation URL (line 356), the default of
\* the Github client made at line 15; none is passed to requests.post at
\* line 339 and none to generate_content at line 208.
CallTimeout(call) ==
    CASE call = "notify" -> Some(15)
      [] call = "publish" -> Some(15)
      [] call = "pages" -> None
      [] call = "generate" -> None

\* A call made without a timeout to a service that never answers does not
\* return: requests waits without limit, the Gemini client as long as its
\* own defaults say.
Blocks(call) ==
    /\ CallTimeout(call) = None
    /\ call = "generate" => lib.genai_blocks

\* The thread waits in the call of this step, and nothing ends the wait.
HangIn(step) ==
    /\ Blocks(step)
    /\ steps' = Append(steps, step)
    /\ pc' = "hung"
    /\ NoRaise
    /\ UNCHANGED <<ghVars, localVars, returned, report, genOutcome, artifact,
                   fetchOutcome, ghCalls, sleeps, posts, pagesAnswer, auxVars>>

\* Line 208: the model never answers.
HangGenerate ==
    /\ pc = "generate"
    /\ task_details.attachments # "not_a_dict"
    /\ HangIn("generate")

\* Line 339: the Pages API never answers.
HangPages ==
    /\ pc = "pages"
    /\ HangIn("pages")

InitHang ==
    /\ InitExecution
    /\ lib \in [genai_blocks : BOOLEAN]
    /\ loop = LoopIdle
    /\ ToolsIdle

NextHang ==
    \/ Next
    \/ HangGenerate
    \/ HangPages

\* Every service may answer or stay silent; the thread runs when it can.
FairSpecHang == InitHang /\ [][NextHang]_vars /\ WF_vars(NextHang)

\* ------------------------------------------------- core/llm_service.py

IssueKinds == {"hello", "calculator", "other"}

FileNames == <<"a.py", "b.py", "c.py", "d.py">>

\* The analysis dict: the key files_to_create may be missing, its list empty.
Analyses ==
    {[has_files_to_create |-> FALSE, files_to_create |-> <<>>]}
    \cup {[has_files_to_create |-> TRUE, files_to_create |-> SubSeq(FileNames, 1, n)] :
            n \in 0..2}

\* A file entry of a "changes" list.
Change(path) ==
    [file_path |-> path, action |-> "create", new_content |-> <<"code of ", path>>]

\* What the POST to the DeepSeek API can end in: an exception of requests, an
\* error status, a body without choices[0].message.content, or a content
\* that is no JSON, JSON that is no object, or a JSON object.
LLMReplies ==
    {[kind |-> k, has_changes |-> FALSE, changes_is_list |-> FALSE, changes |-> <<>>] :
        k \in {"timeout", "http_error", "bad_envelope", "invalid_json",
               "json_not_object", "json_object"}}
    \cup {[kind |-> "json_object", has_changes |-> TRUE, changes_is_list |-> FALSE,
           changes |-> <<>>]}
    \cup {[kind |-> "json_object", has_changes |-> TRUE, changes_is_list |-> TRUE,
           changes |-> [k \in 1..n |-> Change(FileNames[k])]] : n \in 0..MaxChanges}

\* Lines 224-296: the template chosen from the words of the issue.
FallbackContent(issue) ==
    CASE issue = "hello" -> <<"def hello(name):">>
      [] issue = "calculator" -> <<"class Calculator:">>
      [] OTHER -> <<"def main():">>

\* create_fallback_response (lines 212-309).
create_fallback_response(issue_description, analysis) ==
    LET files_to_create == IF analysis.has_files_to_create
                             THEN analysis.files_to_create
                             ELSE <<"solution.py">>
        file_name == IF files_to_create # <<>> THEN files_to_create[1]
                                               ELSE "solution.py"
    IN [fallback |-> TRUE,
        changes |-> <<[file_path |-> file_name, action |-> "create",
                       new_content |-> FallbackContent(issue_description)]>>]

\* Lines 181-199 raise on this reply: requests raises, raise_for_status
\* raises, the envelope or the content does not parse, the parsed value takes
\* no item assignment, or len() of its "changes" fails.
ReplyRaises(reply) ==
    \/ reply.kind # "json_object"
    \/ reply.has_changes /\ ~reply.changes_is_list

\* generate_code_changes (lines 178-209): both handlers return the fallback.
generate_code_changes(issue_description, analysis, reply) ==
    IF ReplyRaises(reply)
      THEN create_fallback_response(issue_description, analysis)
      ELSE [fallback |-> FALSE,
            changes |-> IF reply.has_changes THEN reply.changes ELSE <<>>]

PipelineIdle ==
    /\ repoExists = FALSE
    /\ repoFiles = [p \in {} |-> <<>>]
    /\ repoHead = 0
    /\ pagesEnabled = FALSE
    /\ pc = "idle"
    /\ task_details = IdleTask
    /\ existing_code = None
    /\ generated_files = <<>>
    /\ is_new_repo = FALSE
    /\ file_idx = 0
    /\ existing_file = None
    /\ repo_info = None
    /\ notify_i = 0
    /\ payload = None
    /\ steps = <<>>
    /\ returned = {}
    /\ raised = NoException
    /\ report = "none"
    /\ escaped = FALSE
    /\ genOutcome = "none"
    /\ artifact = <<>>
    /\ fetchOutcome = "none"
    /\ ghCalls = <<>>
    /\ sleeps = <<>>
    /\ posts = <<>>
    /\ pagesAnswer = None

InitLLM ==
    /\ PipelineIdle
    /\ apply = ApplyIdle
    /\ twice = TwiceIdle
    /\ app = AppIdle
    /\ conc = ConcIdle
    /\ lib = LibIdle
    /\ loop = LoopIdle
    /\ ToolsIdle
    /\ llm \in [phase : {"called"}, issue_description : IssueKinds,
                analysis : Analyses]

\* One call of generate_code_changes, answered by the API.
GenerateCodeChanges ==
    /\ llm.phase = "called"
    /\ \E reply \in LLMReplies :
         llm' = [phase |-> "returned",
                 issue_description |-> llm.issue_description,
                 analysis |-> llm.analysis,
                 reply |-> reply,
                 result |-> generate_code_changes(llm.issue_description,
                                                  llm.analysis, reply)]
    /\ UNCHANGED <<ghVars, pc, localVars, obsVars, apply, twice, app, conc, lib, loop, toolVars>>

NextLLM == GenerateCodeChanges

SpecLLM == InitLLM /\ [][NextLLM]_vars

\* ------------------------------------- coding_agent.py: apply_code_changes

\* Largest number of entries of files_to_change.
MaxFiles == 2

\* The dicts passed as files_to_change.
FilesToChange ==
    {[k \in 1..n |-> [path |-> FileNames[k],
                      content |-> <<"code of ", FileNames[k]>>]] : n \in 1..MaxFiles}

\* What the branch holds before the call: some of the files, with old content.
BranchFiles ==
    {[p \in S |-> OldText] : S \in SUBSET {FileNames[k] : k \in 1..MaxFiles}}

\* The call of the iteration that the service fails for a reason of its own
\* (an error status other than 404, a connection error), if any.
ApplyFaults == {"none", "get_contents", "update_file", "create_file"}

\* Line 75: get_repo; an exception of it reaches line 123.
ApplyStart ==
    /\ apply.pc = "start"
    /\ \/ /\ repoExists
          /\ apply' = [apply EXCEPT !.pc = "loop", !.idx = 1,
                                    !.calls = Append(@, Call("get_repo", "task"))]
       \/ apply' = [apply EXCEPT !.pc = "raised",
                                 !.calls = Append(@, Call("get_repo", "task"))]
    /\ UNCHANGED <<ghVars, pc, localVars, obsVars, llm, twice, app, conc, lib, loop, toolVars>>

AfterErrorLeavesLoop(idx, n) == n + 1
\* Lines 106-112: the handlers of one iteration append to errors and the for
\* loop goes on with the next entry.
AfterError(idx, n) == idx + 1

\* Lines 80-113: one iteration of the loop over files_to_change.items().
ApplyFile ==
    /\ apply.pc = "loop"
    /\ apply.idx <= Len(apply.files_to_change)
    /\ LET file_path == apply.files_to_change[apply.idx].path
           content == apply.files_to_change[apply.idx].content
           found == GetContentsFinds(file_path)
           write == IF found THEN "update_file" ELSE "create_file"
       IN \E fault \in ApplyFaults :
            IF fault = "get_contents"
              THEN \* a GithubException that is no 404: lines 106-108
                   /\ apply' = [apply EXCEPT
                          !.idx = AfterError(@, Len(apply.files_to_change)),
                          !.errors = Append(@, file_path),
                          !.calls = Append(@, Call("get_contents", file_path))]
                   /\ UNCHANGED <<repoFiles, repoHead>>
              ELSE IF fault = write
                     THEN \* update_file or create_file raises: lines 106-112
                          /\ apply' = [apply EXCEPT
                                 !.idx = AfterError(@, Len(apply.files_to_change)),
                                 !.errors = Append(@, file_path),
                                 !.calls = @ \o <<Call("get_contents", file_path),
                                                  Call(write, file_path)>>]
                          /\ UNCHANGED <<repoFiles, repoHead>>
                     ELSE \* lines 84-93 (found) or 96-105 (status 404)
                          /\ apply' = [apply EXCEPT
                                 !.idx = @ + 1,
                                 !.files_processed = @ + 1,
                                 !.calls = @ \o <<Call("get_contents", file_path),
                                                  Call(write, file_path)>>]
                          /\ repoFiles' =
                                IF found
                                  THEN [repoFiles EXCEPT ![file_path] =
                                           UpdateFile(repoFiles[file_path], content)]
                                  ELSE (file_path :> content) @@ repoFiles
                          /\ repoHead' = repoHead + 1
    /\ UNCHANGED <<repoExists, pagesEnabled, pc, localVars, obsVars, llm, twice, app, conc, lib, loop, toolVars>>

\* Lines 114-120: raise when a file failed, return True otherwise.
ApplyEnd ==
    /\ apply.pc = "loop"
    /\ apply.idx > Len(apply.files_to_change)
    /\ apply' = [apply EXCEPT
                   !.pc = IF apply.errors # <<>> THEN "raised" ELSE "returned"]
    /\ UNCHANGED <<ghVars, pc, localVars, obsVars, llm, twice, app, conc, lib, loop, toolVars>>

\* ------------------------------- a publish function called a second time

\* The artifacts generate_code_with_gemini returns.
Artifacts ==
    {generate_code_with_gemini("none", outcome).files : outcome \in GeminiOutcomes}

\* The files of the repository before the second call, and the calls made.
SecondCall(files, calls) ==
    [fn |-> twice.fn, call |-> 2, after_first |-> files, calls_before |-> calls]

\* create_or_update_repo has returned and is called again for the same task:
\* with the dict object of the first call, or with an equal dict.
PublishAgain ==
    /\ twice.fn = "create_or_update_repo"
    /\ twice.call = 1
    /\ pc = "pages"
    /\ twice' = SecondCall(repoFiles, Len(ghCalls))
    /\ \E files \in {generated_files, artifact} : generated_files' = files
    /\ is_new_repo' = FALSE
    /\ file_idx' = 0
    /\ existing_file' = None
    /\ repo_info' = None
    /\ pc' = "pub_get_repo"
    /\ UNCHANGED <<ghVars, task_details, existing_code, notify_i, payload,
                   obsVars, llm, apply, app, conc, lib, loop, toolVars>>

\* apply_code_changes has returned True and is called again with the same
\* repository, branch and files_to_change.
ApplyAgain ==
    /\ twice.fn = "apply_code_changes"
    /\ twice.call = 1
    /\ apply.pc = "returned"
    /\ twice' = SecondCall(repoFiles, Len(apply.calls))
    /\ apply' = [apply EXCEPT !.pc = "start", !.idx = 0, !.files_processed = 0]
    /\ UNCHANGED <<ghVars, pc, localVars, obsVars, llm, app, conc, lib, loop, toolVars>>

InitTwice ==
    /\ twice \in [fn : {"create_or_update_repo", "apply_code_changes"}, call : {1}]
    /\ llm = Idle
    /\ app = AppIdle
    /\ conc = ConcIdle
    /\ lib = LibIdle
    /\ loop = LoopIdle
    /\ ToolsIdle
    /\ pagesEnabled = FALSE
    /\ task_details = IdleTask
    /\ existing_code = None
    /\ is_new_repo = FALSE
    /\ file_idx = 0
    /\ existing_file = None
    /\ repo_info = None
    /\ notify_i = 0
    /\ payload = None
    /\ steps = <<>>
    /\ returned = {}
    /\ raised = NoException
    /\ report = "none"
    /\ escaped = FALSE
    /\ genOutcome = "none"
    /\ fetchOutcome = "none"
    /\ ghCalls = <<>>
    /\ sleeps = <<>>
    /\ posts = <<>>
    /\ pagesAnswer = None
    /\ IF twice.fn = "create_or_update_repo"
         THEN /\ InitRepo
              /\ pc = "pub_get_repo"
              /\ artifact \in Artifacts
              /\ generated_files = artifact
              /\ apply = ApplyIdle
         ELSE /\ repoExists \in BOOLEAN
              /\ repoFiles \in (IF repoExists THEN BranchFiles
                                              ELSE {[p \in {} |-> <<>>]})
              /\ repoHead = 1
              /\ pc = "idle"
              /\ artifact = <<>>
              /\ generated_files = <<>>
              /\ apply \in [pc : {"start"}, files_to_change : FilesToChange,
                            idx : {0}, errors : {<<>>}, files_processed : {0},
                            calls : {<<>>}]

NextTwice ==
    \/ PubGetRepo
    \/ PubCreateRepo
    \/ PubFirst
    \/ PubGetContents
    \/ PubUpdate
    \/ PubCreate
    \/ PubBranch
    \/ PublishAgain
    \/ ApplyStart
    \/ ApplyFile
    \/ ApplyEnd
    \/ ApplyAgain

SpecTwice == InitTwice /\ [][NextTwice]_vars

\* ------------------------------------------------------- app.py

\* Line 15.
REQUIRED_FIELDS ==
    <<"email", "secret", "task", "round", "nonce", "brief", "evaluation_url">>

RequiredSet == {REQUIRED_FIELDS[k] : k \in 1..Len(REQUIRED_FIELDS)}

\* The value of MY_SECRET: not set, set to the empty string, or a secret.
Environments == {None, Some(""), Some("s3cret")}

\* A request: its method, whether its content type is JSON, what its body
\* parses to (nothing, a list of strings, an object), the names that are keys
\* of the object or items of the list, the value of the key secret, and the
\* values the execution reads from the object.
Requests ==
    [method : {"GET", "POST"},
     is_json : BOOLEAN,
     json : {"invalid", "list", "dict"},
     names : {RequiredSet, RequiredSet \ {"secret"},
              RequiredSet \ {"evaluation_url"}, {}},
     secret : {"s3cret", "guess"},
     task : {t \in TaskBodies : t.nonce = IdleTask.nonce}]

\* Line 34: request.get_json(silent=True) or {}.
Data(request) ==
    IF request.json = "invalid" \/ request.names = {}
      THEN [kind |-> "dict", names |-> {}]
      ELSE [kind |-> request.json, names |-> request.names]

\* Line 37: the required fields that are not in data.
Missing(data) == SelectSeq(REQUIRED_FIELDS, LAMBDA f : f \notin data.names)

SecretMatchesAny(given, expected) == TRUE
\* Line 48: data.get('secret') != expected.
SecretMatches(given, expected) == given = expected

Response(status, body) == [status |-> status, body |-> body]

\* api_endpoint up to thread.start(): the response it returns at once, or
\* that it starts the thread (lines 20-56). data.get on a list raises
\* AttributeError, which the framework answers with status 500.
api_endpoint(request, my_secret, can_start) ==
    LET data == Data(request)
        expected == IF my_secret = None THEN "" ELSE my_secret.value
        answer(status, body) ==
            [start |-> FALSE, response |-> Response(status, body)]
    IN IF request.method = "GET"
         THEN answer(200, "ok")
       ELSE IF ~request.is_json
         THEN answer(400, "Expected application/json payload")
       ELSE IF Missing(data) # <<>>
         THEN answer(400, "Missing required fields")
       ELSE IF expected = ""
         THEN answer(500, "Server misconfiguration")
       ELSE IF data.kind # "dict"
         THEN answer(500, "Internal Server Error")
       ELSE IF ~SecretMatches(request.secret, expected)
         THEN answer(403, "Invalid secret.")
       ELSE IF ~can_start
         THEN answer(500, "Failed to start processing.")
       ELSE [start |-> TRUE, response |-> Response(0, "none")]

\* Lines 20-56: the request is handled; thread.start() starts the execution
\* of handle_build_request with data as its argument.
ApiEndpoint ==
    /\ app.phase = "request"
    /\ \E can_start \in BOOLEAN :
         LET r == api_endpoint(app.request, app.my_secret, can_start)
         IN IF r.start
              THEN /\ app' = [app EXCEPT !.phase = "started",
                                         !.dispatched = @ + 1]
                   /\ pc' = "start"
                   /\ task_details' = app.request.task
              ELSE /\ app' = [app EXCEPT !.phase = "responded",
                                         !.response = r.response]
                   /\ UNCHANGED <<pc, task_details>>
    /\ UNCHANGED <<ghVars, existing_code, generated_files, is_new_repo, file_idx,
                   existing_file, repo_info, notify_i, payload, obsVars, llm,
                   apply, twice, conc, lib, loop, toolVars>>

ResponseAfterJoin(p) == p \in {"done", "fatal"}
\* thread.start() returns when the thread is started, whatever the thread
\* does (line 56).
ResponseReady(p) == TRUE

\* Lines 58-59: the response of an accepted request.
ApiRespond ==
    /\ app.phase = "started"
    /\ ResponseReady(pc)
    /\ app' = [app EXCEPT
                 !.phase = "responded",
                 !.response = Response(200, "Request received and is being processed.")]
    /\ UNCHANGED <<ghVars, pc, localVars, obsVars, llm, apply, twice, conc, lib, loop, toolVars>>

InitApp ==
    /\ InitRepo
    /\ pagesEnabled \in (IF repoExists THEN BOOLEAN ELSE {FALSE})
    /\ pc = "idle"
    /\ task_details = IdleTask
    /\ existing_code = None
    /\ generated_files = <<>>
    /\ is_new_repo = FALSE
    /\ file_idx = 0
    /\ existing_file = None
    /\ repo_info = None
    /\ notify_i = 0
    /\ payload = None
    /\ steps = <<>>
    /\ returned = {}
    /\ raised = NoException
    /\ report = "none"
    /\ escaped = FALSE
    /\ genOutcome = "none"
    /\ artifact = <<>>
    /\ fetchOutcome = "none"
    /\ ghCalls = <<>>
    /\ sleeps = <<>>
    /\ posts = <<>>
    /\ pagesAnswer = None
    /\ llm = Idle
    /\ apply = ApplyIdle
    /\ twice = TwiceIdle
    /\ conc = ConcIdle
    /\ lib = LibIdle
    /\ loop = LoopIdle
    /\ ToolsIdle
    /\ app \in [phase : {"request"}, request : Requests, my_secret : Environments,
                response : {Response(0, "none")}, dispatched : {0}]

NextApp ==
    \/ ApiEndpoint
    \/ ApiRespond
    \/ Next

SpecApp == InitApp /\ [][NextApp]_vars

\* ------------------------- two executions of handle_build_request at once

\* The threads that app.py has started.
Units == {1, 2}

TaskNames == {"task-a", "task-b"}

RepoNameShared(task) == "task-a"
\* Line 283: repo_name = task_name.
RepoName(task) == task

\* A repository of the account that does not exist, and one that holds the
\* files of an earlier round.
NoRepo == [exists |-> FALSE, files |-> [p \in {} |-> <<>>], head |-> 0,
           pages |-> FALSE]
Round1Repo ==
    [exists |-> TRUE,
     files |-> [p \in {"index.html", "README.md", "LICENSE"} |->
                   IF p = "index.html" THEN OldHtml ELSE OldText],
     head |-> 1, pages |-> TRUE]

\* What the services answer to the next call of a thread: a failure of their
\* own, the kind of reply of the model, the status of the sink.
Choices == [fail : BOOLEAN, gen : {"text", "raise_call"}, status : {200, 500}]

\* The answers that matter at a step: the model's at generate, a status or a
\* connection error at the two POSTs, a failure or none at a GitHub call,
\* nothing at the steps that call no service.
ChoicesAt(step) ==
    LET answer(f, g, st) == [fail |-> f, gen |-> g, status |-> st]
    IN CASE step \in {"start", "settle"} -> {answer(FALSE, "text", 200)}
         [] step = "generate" ->
              {answer(FALSE, g, 200) : g \in {"text", "raise_call"}}
         [] step \in {"pages", "notify"} ->
              {answer(FALSE, "text", 200), answer(FALSE, "text", 500),
               answer(TRUE, "text", 200)}
         [] OTHER -> {answer(f, "text", 200) : f \in BOOLEAN}

\* The thread ends in the handler of line 87.
Fatal(u, step) == [u EXCEPT !.pc = "fatal", !.raised = step]

\* The files of the repository with the path committed with the content.
Commit(r, path, content) ==
    [r EXCEPT !.files = (path :> content) @@ r.files, !.head = r.head + 1]

\* One step of handle_build_request in a thread with locals u, on the
\* repository r named after its task: the locals and the repository after
\* the step. Each step holds one call of an external service.
UnitStep(u, r, c) ==
    LET same(v) == [unit |-> v, repo |-> r]
        file == u.generated_files[u.file_idx]
    IN CASE u.pc = "start" ->
              \* lines 27-33
              same([u EXCEPT !.pc = IF u.round > 1 THEN "fetch" ELSE "generate"])
         [] u.pc = "fetch" ->
              \* lines 34-40
              same([u EXCEPT
                      !.pc = "generate",
                      !.existing_code =
                          IF r.exists /\ "index.html" \in DOMAIN r.files /\ ~c.fail
                            THEN Some(r.files["index.html"]) ELSE None])
         [] u.pc = "generate" ->
              \* lines 43-50
              same([u EXCEPT
                      !.pc = "pub_get_repo",
                      !.generated_files =
                          generate_code_with_gemini("none",
                              [kind |-> c.gen, reply |-> NewHtml]).files])
         [] u.pc = "pub_get_repo" ->
              \* lines 286-290
              IF c.fail THEN same(Fatal(u, "publish"))
              ELSE IF r.exists
                THEN same([u EXCEPT !.pc = "pub_files", !.file_idx = 1])
                ELSE same([u EXCEPT !.pc = "pub_create_repo"])
         [] u.pc = "pub_create_repo" ->
              \* lines 291-292
              IF c.fail \/ r.exists THEN same(Fatal(u, "publish"))
              ELSE [unit |-> [u EXCEPT !.pc = "pub_first", !.is_new_repo = TRUE],
                    repo |-> [r EXCEPT !.exists = TRUE]]
         [] u.pc = "pub_first" ->
              \* lines 299-303
              LET first == u.generated_files[1]
                  popped == [u EXCEPT !.generated_files = Tail(@)]
              IN IF c.fail \/ first.path \in DOMAIN r.files
                   THEN same(Fatal(popped, "publish"))
                   ELSE [unit |-> [popped EXCEPT !.pc = "pub_files", !.file_idx = 1],
                         repo |-> Commit(r, first.path, first.content)]
         [] u.pc = "pub_files" /\ u.file_idx <= Len(u.generated_files) ->
              \* lines 306-308
              IF c.fail THEN same(Fatal(u, "publish"))
              ELSE IF file.path \in DOMAIN r.files
                THEN same([u EXCEPT !.pc = "pub_update",
                                    !.existing_file = Some(r.files[file.path])])
                ELSE same([u EXCEPT !.pc = "pub_create", !.existing_file = None])
         [] u.pc = "pub_update" ->
              \* lines 309-310: the sha passed is that of the content read
              IF c.fail \/ file.path \notin DOMAIN r.files
                   \/ Some(r.files[file.path]) # u.existing_file
                THEN same(Fatal(u, "publish"))
                ELSE [unit |-> [u EXCEPT !.pc = "pub_files", !.file_idx = @ + 1],
                      repo |-> Commit(r, file.path,
                                      UpdateFile(r.files[file.path], file.content))]
         [] u.pc = "pub_create" ->
              \* lines 311-313
              IF c.fail \/ file.path \in DOMAIN r.files
                THEN same(Fatal(u, "publish"))
                ELSE [unit |-> [u EXCEPT !.pc = "pub_files", !.file_idx = @ + 1],
                      repo |-> Commit(r, file.path, file.content)]
         [] u.pc = "pub_files" /\ u.file_idx > Len(u.generated_files) ->
              \* lines 316-324
              IF c.fail \/ r.head = 0 THEN same(Fatal(u, "publish"))
              ELSE same([u EXCEPT
                           !.pc = "pages",
                           !.repo_info = Some([repo_name |-> RepoName(u.task),
                                               commit_sha |-> r.head])])
         [] u.pc = "pages" ->
              \* lines 61-64 and 326-347
              IF c.fail \/ EnablePagesRaises(c.status)
                THEN same(Fatal(u, "pages"))
                ELSE [unit |-> [u EXCEPT !.pc = "settle"],
                      repo |-> [r EXCEPT !.pages = TRUE]]
         [] u.pc = "settle" ->
              \* lines 66-82
              same([u EXCEPT
                      !.pc = "notify",
                      !.payload = Some([task |-> u.task, round |-> u.round,
                                        repo_name |-> u.repo_info.value.repo_name,
                                        commit_sha |-> u.repo_info.value.commit_sha])])
         [] u.pc = "notify" ->
              \* lines 351-363
              IF u.notify_i \notin NotifyRange THEN same(Fatal(u, "notify"))
              ELSE IF ~c.fail /\ NotifySucceeds(c.status)
                THEN same([u EXCEPT !.pc = "done"])
                ELSE same([u EXCEPT !.notify_i = @ + 1])

\* A thread that app.py has just started for a task and a round.
NewUnit(task, round) ==
    [pc |-> "start", task |-> task, round |-> round, existing_code |-> None,
     generated_files |-> <<>>, is_new_repo |-> FALSE, file_idx |-> 0,
     existing_file |-> None, repo_info |-> None, payload |-> None,
     notify_i |-> 0, raised |-> "none"]

Running(u) == u.pc \notin {"done", "fatal"}

\* Two threads for different tasks, the repositories of the account, and for
\* each thread alone:
\* the same thread given the same answers, on a repository no other thread
\* touches.
InitConc ==
    /\ PipelineIdle
    /\ llm = Idle
    /\ apply = ApplyIdle
    /\ twice = TwiceIdle
    /\ app = AppIdle
    /\ lib = LibIdle
    /\ loop = LoopIdle
    /\ ToolsIdle
    /\ \E tasks \in {t \in [Units -> TaskNames] : t[1] # t[2]},
          rounds \in [Units -> 1..MaxRound],
          account \in [{RepoName(t) : t \in TaskNames} -> {NoRepo, Round1Repo}] :
         conc = [phase |-> "running",
                 units |-> [n \in Units |-> NewUnit(tasks[n], rounds[n])],
                 account |-> account,
                 alone |-> [n \in Units |->
                              [unit |-> NewUnit(tasks[n], rounds[n]),
                               repo |-> account[RepoName(tasks[n])]]]]

\* Thread n takes its next step.
UnitRuns(n) ==
    /\ conc.phase = "running"
    /\ Running(conc.units[n])
    /\ \E c \in ChoicesAt(conc.units[n].pc) :
         LET name == RepoName(conc.units[n].task)
             together == UnitStep(conc.units[n], conc.account[name], c)
             alone == UnitStep(conc.alone[n].unit, conc.alone[n].repo, c)
         IN conc' = [conc EXCEPT !.units[n] = together.unit,
                                 !.account[name] = together.repo,
                                 !.alone[n] = alone]
    /\ UNCHANGED <<ghVars, pc, localVars, obsVars, llm, apply, twice, app, lib, loop, toolVars>>

NextConc == \E n \in Units : UnitRuns(n)

SpecConc == InitConc /\ [][NextConc]_vars

\* The answers of services that do not fail of their own: the model's reply
\* or its failure at generate (the artifact is then the fallback page),
\* success everywhere else.
ChoicesSame(step) ==
    {c \in ChoicesAt(step) : ~c.fail /\ c.status = 200}

\* Two threads for the same task, as a duplicate POST or two rounds accepted
\* back to back start them; the repository of the task exists or not.
InitSame ==
    /\ PipelineIdle
    /\ llm = Idle
    /\ apply = ApplyIdle
    /\ twice = TwiceIdle
    /\ app = AppIdle
    /\ lib = LibIdle
    /\ loop = LoopIdle
    /\ ToolsIdle
    /\ \E task \in TaskNames, rounds \in [Units -> 1..MaxRound],
          repo \in {NoRepo, Round1Repo} :
         conc = [phase |-> "same",
                 units |-> [n \in Units |-> NewUnit(task, rounds[n])],
                 account |-> [name \in {RepoName(t) : t \in TaskNames} |->
                                IF name = RepoName(task) THEN repo ELSE NoRepo],
                 alone |-> [n \in Units |->
                              [unit |-> NewUnit(task, rounds[n]), repo |-> repo]]]

\* Thread n takes its next step on the repository both threads work on.
SameRuns(n) ==
    /\ conc.phase = "same"
    /\ Running(conc.units[n])
    /\ \E c \in ChoicesSame(conc.units[n].pc) :
         LET name == RepoName(conc.units[n].task)
             together == UnitStep(conc.units[n], conc.account[name], c)
         IN conc' = [conc EXCEPT !.units[n] = together.unit,
                                 !.account[name] = together.repo]
    /\ UNCHANGED <<ghVars, pc, localVars, obsVars, llm, apply, twice, app, lib, loop, toolVars>>

NextSame == \E n \in Units : SameRuns(n)

SpecSame == InitSame /\ [][NextSame]_vars

\* ------------------------------------------------------------ AttemptLoop
\* The loop itself is not among the files of src/: it is modelled from
\* section 4.1 of the specification, over create_pull_request,
\* update_pull_request and get_latest_ai_review_verdict of coding_agent.py.

\* Policy defaults of section 4.1.
MAX_ATTEMPTS == 3
SettleDelay == 10
PropagationDelay == 30
PollInterval == 20

\* Largest number of polls of one attempt (the poll budget).
PollBudget == 2

\* Step 1: the branch identity is derived from the task identifier.
BranchName(task) == <<"agent", task>>

\* What get_latest_ai_review_verdict returns (lines 320-348).
RawVerdicts == {"APPROVE", "REQUEST_CHANGES", "COMMENT", "PENDING", "ERROR"}

\* The verdict of the enum for what the source returned: anything that is
\* none of its values counts as PENDING.
Classify(raw) ==
    CASE raw = "APPROVE" -> "APPROVED"
      [] raw = "REQUEST_CHANGES" -> "CHANGES_REQUESTED"
      [] raw = "ERROR" -> "ERROR"
      [] OTHER -> "PENDING"

OpenForNone(pulls, branch) == {}
\* The open pull requests of the repository whose head is the branch.
OpenFor(pulls, branch) == {pr \in pulls : pr.head = branch}

\* create_pull_request (lines 127-205): create_pull makes a new pull request;
\* GitHub refuses a second one for the same head, and then the open one is
\* looked up and returned; any other failure is raised.
create_pull_request(pulls, branch_name, fault) ==
    IF fault
      THEN [raises |-> TRUE, pulls |-> pulls, pr |-> None, created |-> FALSE]
    ELSE IF OpenFor(pulls, branch_name) = {}
      THEN LET pr == [number |-> Cardinality(pulls) + 1, head |-> branch_name]
           IN [raises |-> FALSE, pulls |-> pulls \cup {pr}, pr |-> Some(pr.number),
               created |-> TRUE]
      ELSE LET pull == CHOOSE pr \in OpenFor(pulls, branch_name) : TRUE
           IN [raises |-> FALSE, pulls |-> pulls, pr |-> Some(pull.number),
               created |-> FALSE]

\* update_pull_request (lines 208-247): the open pull request of the branch
\* gets a comment; without one, and on any failure, it raises.
update_pull_request(pulls, branch_name, fault) ==
    IF fault \/ OpenFor(pulls, branch_name) = {}
      THEN [raises |-> TRUE, pr |-> None]
      ELSE [raises |-> FALSE,
            pr |-> Some((CHOOSE pr \in OpenFor(pulls, branch_name) : TRUE).number)]

\* The issue a task comes from: its comments and its state.
OpenIssue == [comments |-> <<>>, state |-> "open"]

\* Where a call of close_issue_with_comment fails, and with what.
IssueFaults ==
    {[at |-> "none", exc |-> "none"]} \cup
    [at : {"get_repo", "get_issue", "create_comment", "edit"},
     exc : {"GithubException", "UnknownObjectException", "ConnectionError"}]

\* except Exception as e of close_issue_with_comment (line 458).
CloseCatches(exc) == Catches("Exception", exc)

CommentedThenClosedAnyway(issue, comment, close, fault) ==
    [issue EXCEPT !.comments = IF fault.at = "create_comment" THEN @
                                ELSE Append(@, comment),
                  !.state = IF close /\ fault.at # "edit" THEN "closed" ELSE @]
\* The issue after the calls close_issue_with_comment got through (lines
\* 443-451): create_comment, then edit(state="closed") when close is set.
CommentedThenClosed(issue, comment, close, fault) ==
    IF fault.at \in {"get_repo", "get_issue", "create_comment"}
      THEN issue
    ELSE IF close /\ fault.at # "edit"
      THEN [issue EXCEPT !.comments = Append(@, comment), !.state = "closed"]
      ELSE [issue EXCEPT !.comments = Append(@, comment)]

\* close_issue_with_comment (lines 439-460): True when every call went
\* through, False when one raised; edit is called only when close is set.
close_issue_with_comment(issue, comment, close, fault) ==
    LET failed == fault.at # "none" /\ (fault.at = "edit" => close)
    IN [issue |-> CommentedThenClosed(issue, comment, close, fault),
        raises |-> failed /\ ~CloseCatches(fault.exc),
        ret |-> IF failed
                  THEN IF CloseCatches(fault.exc) THEN Some(FALSE) ELSE None
                  ELSE Some(TRUE)]

Event(op, attempt, what) == [op |-> op, attempt |-> attempt, what |-> what]

\* The loop goes on to its next position, with an event added to its trail.
Goes(to, event) == loop' = [loop EXCEPT !.pc = to, !.log = Append(@, event)]

LoopFrame == UNCHANGED <<ghVars, pc, localVars, obsVars, llm, apply, twice, app,
                         conc, lib, toolVars>>

LoopContinuesOnceMore(counter) == counter <= MAX_ATTEMPTS + 1
\* Step 2: loop while counter <= MAX_ATTEMPTS.
LoopContinues(counter) == counter <= MAX_ATTEMPTS

\* What a publish returns: the revision it left on the branch.
Published(branch, attempt) == [branch |-> branch, revision |-> attempt]

\* The terminal outcomes of the contract of run(task).
Success(ref) == [kind |-> "Success", ref |-> ref]
Exhausted(ref) == [kind |-> "Exhausted", ref |-> ref]
FatalOutcome == [kind |-> "Fatal", ref |-> None]

\* Steps 2 and 2a: the loop condition, and the settle delay of a later attempt.
LoopCheck ==
    /\ loop.pc = "check"
    /\ IF LoopContinues(loop.counter)
         THEN IF loop.counter > 1
                THEN Goes("generate", Event("wait", loop.counter, SettleDelay))
                ELSE loop' = [loop EXCEPT !.pc = "generate"]
         ELSE loop' = [loop EXCEPT !.pc = "exhausting"]
    /\ LoopFrame

\* Step 2b: the generator returns an artifact, the fallback when it fails.
LoopGenerate ==
    /\ loop.pc = "generate"
    /\ \E kind \in {"generated", "fallback"} :
         Goes("publish", Event("generate", loop.counter, kind))
    /\ LoopFrame

\* Step 2c: the artifact is published to the branch of the task; when it
\* cannot be published the run ends fatal.
LoopPublish ==
    /\ loop.pc = "publish"
    /\ \/ loop' = [loop EXCEPT
                 !.pc = "review",
                 !.published = Some(Published(loop.branch, loop.counter)),
                 !.log = Append(@, Event("publish", loop.counter, loop.branch))]
       \/ loop' = [loop EXCEPT !.pc = "fatal", !.outcome = Some(FatalOutcome)]
    /\ LoopFrame

\* Step 2d: the review request is created when counter == 1.
CreatesReview(counter) == counter = 1

\* Step 2d: create the review request and capture its identifier, or reuse
\* the captured one.
LoopReview ==
    /\ loop.pc = "review"
    /\ \E fault \in BOOLEAN :
         IF CreatesReview(loop.counter)
           THEN LET r == create_pull_request(loop.pulls, loop.branch, fault)
                IN IF r.raises
                     THEN loop' = [loop EXCEPT !.pc = "fatal", !.outcome = Some(FatalOutcome)]
                     ELSE loop' = [loop EXCEPT
                            !.pc = "propagate",
                            !.pulls = r.pulls,
                            !.review = r.pr,
                            !.log = Append(@, Event("create_review", loop.counter,
                                                    [pr |-> r.pr.value,
                                                     created |-> r.created]))]
           ELSE LET r == update_pull_request(loop.pulls, loop.branch, fault)
                IN IF r.raises
                     THEN loop' = [loop EXCEPT !.pc = "fatal", !.outcome = Some(FatalOutcome)]
                     ELSE Goes("propagate",
                               Event("reuse_review", loop.counter,
                                     [pr |-> loop.review.value, created |-> FALSE]))
    /\ LoopFrame

\* Step 2e: the propagation delay, first attempt only.
LoopPropagate ==
    /\ loop.pc = "propagate"
    /\ IF loop.counter = 1
         THEN loop' = [loop EXCEPT
                 !.pc = "poll", !.polls = 0,
                 !.log = Append(@, Event("wait", loop.counter, PropagationDelay))]
         ELSE loop' = [loop EXCEPT !.pc = "poll", !.polls = 0]
    /\ LoopFrame

VerdictEndsRunNever(verdict) == FALSE
\* Step 2f: on APPROVED, return Success immediately.
VerdictEndsRun(verdict) == verdict = "APPROVED"

VerdictAdvancesOnError(verdict) == verdict = "ERROR"
\* Step 2f: on CHANGES_REQUESTED, break out of the poll sub-loop and advance
\* to the next attempt; on ERROR, advance the attempt.
VerdictAdvances(verdict) == verdict \in {"CHANGES_REQUESTED", "ERROR"}

BudgetLeftOnceMore(polls) == polls < PollBudget + 1
\* Step 2f: poll up to a poll budget.
BudgetLeft(polls) == polls < PollBudget

\* Step 2f: one poll of the verdict source and what the loop does with it.
LoopPoll ==
    /\ loop.pc = "poll"
    /\ BudgetLeft(loop.polls)
    /\ \E raw \in RawVerdicts :
         LET verdict == Classify(raw)
             polled == [loop EXCEPT
                          !.polls = @ + 1,
                          !.log = Append(@, Event("poll", loop.counter, verdict))]
         IN IF VerdictEndsRun(verdict)
              THEN loop' = [polled EXCEPT !.pc = "success",
                                          !.outcome = Some(Success(loop.published))]
            ELSE IF VerdictAdvances(verdict)
              THEN loop' = [polled EXCEPT !.pc = "advance"]
            ELSE IF BudgetLeft(polled.polls)
              THEN loop' = [polled EXCEPT
                      !.log = Append(@, Event("wait", loop.counter, PollInterval))]
              ELSE \* the budget is used up: stagnation, the attempt advances
                   loop' = [polled EXCEPT !.pc = "advance"]
    /\ LoopFrame

\* Step 2g: counter += 1.
LoopAdvance ==
    /\ loop.pc = "advance"
    /\ loop' = [loop EXCEPT !.pc = "check", !.counter = @ + 1]
    /\ LoopFrame

\* Step 3: Exhausted carrying the last published identifier, with a note on
\* the issue by close_issue_with_comment, which may fail to be left.
LoopExhausted ==
    /\ loop.pc = "exhausting"
    /\ \E fault \in IssueFaults, close \in BOOLEAN :
         LET r == close_issue_with_comment(loop.issue, "exhausted", close, fault)
             note == Event("note", loop.counter,
                           [ret |-> r.ret, close |-> close, fault |-> fault.at])
         IN IF r.raises
              THEN loop' = [loop EXCEPT !.pc = "fatal", !.issue = r.issue,
                                        !.outcome = Some(FatalOutcome),
                                        !.log = Append(@, note)]
              ELSE loop' = [loop EXCEPT !.pc = "exhausted", !.issue = r.issue,
                                        !.outcome = Some(Exhausted(loop.published)),
                                        !.log = Append(@, note)]
    /\ LoopFrame

\* Step 1: counter = 1, the branch of the task; the repository may hold an
\* open pull request of that branch from an earlier run.
InitLoop ==
    /\ PipelineIdle
    /\ llm = Idle
    /\ apply = ApplyIdle
    /\ twice = TwiceIdle
    /\ app = AppIdle
    /\ conc = ConcIdle
    /\ lib = LibIdle
    /\ ToolsIdle
    /\ \E task \in TaskNames, earlier \in BOOLEAN :
         loop = [pc |-> "check", task |-> task, counter |-> 1,
                 branch |-> BranchName(task),
                 pulls |-> IF earlier
                             THEN {[number |-> 1, head |-> BranchName(task)]}
                             ELSE {},
                 review |-> None, polls |-> 0, log |-> <<>>,
                 published |-> None, outcome |-> None, issue |-> OpenIssue]

NextLoop ==
    \/ LoopCheck
    \/ LoopGenerate
    \/ LoopPublish
    \/ LoopReview
    \/ LoopPropagate
    \/ LoopPoll
    \/ LoopAdvance
    \/ LoopExhausted

SpecLoop == InitLoop /\ [][NextLoop]_vars

\* The loop is sequential code: it takes its next step whenever it has one.
FairSpecLoop == SpecLoop /\ WF_vars(NextLoop)

\* ------------------------------------------- get_latest_ai_review_verdict
\* A comment body is a sequence of pieces of text. "HDR" is the header
\* "AI Reviewer Agent Report" with its robot sign, "AIR" the words
\* "AI Reviewer" alone, "V:" the label of the verdict line in Russian and
\* "VE:" the label "VERDICT:"; a keyword follows its label, and what follows
\* a keyword continues it ("APPROVE" then "D_WITH_RESERVATIONS").

\* Largest number of comments and of reviews of the pull request.
MaxComments == 2
MaxReviews == 2

\* The two copies of the function.
Variants == {"coding_agent", "github_client"}

\* Reports of the reviewer with one of its three verdicts.
WellFormedBodies ==
    { <<"HDR", "V:", "APPROVE">>,
      <<"HDR", "V:", "REQUEST_CHANGES">>,
      <<"HDR", "V:", "COMMENT">> }

\* Reports with unexpected or malformed verdict text: no verdict, an unknown
\* keyword, a keyword that starts with an approval keyword, and a verdict
\* followed by a quotation that contains an approval keyword.
MalformedBodies ==
    { <<"HDR", "text">>,
      <<"HDR", "V:", "REJECT">>,
      <<"HDR", "V:", "APPROVE", "D_WITH_RESERVATIONS">>,
      <<"HDR", "V:", "REQUEST_CHANGES", "text", "V:", "APPROVE">> }

\* Comments that are not reports of the reviewer under coding_agent.py: an
\* empty body, a remark, a remark that quotes a verdict line, and a comment
\* that names the reviewer with the English label.
OtherBodies ==
    { <<>>, <<"text">>, <<"text", "V:", "APPROVE">>, <<"AIR", "VE:", "APPROVE">> }

Bodies == WellFormedBodies \cup MalformedBodies \cup OtherBodies

ReviewStates == {"APPROVED", "CHANGES_REQUESTED", "COMMENTED"}

\* needle in body (Python's substring test).
In(needle, body) ==
    \E k \in 0..(Len(body) - Len(needle)) :
        \A j \in 1..Len(needle) : body[k + j] = needle[j]

\* Lines 318 and 237: the comment is a report of the AI reviewer.
IsReport(variant, body) ==
    \/ In(<<"HDR">>, body)
    \/ variant = "github_client" /\ (In(<<"AIR">>, body) \/ In(<<"HDR">>, body))

\* Lines 320-328 and 239-247: the verdict line with this keyword is in body.
HasVerdict(variant, keyword, body) ==
    \/ In(<<"V:", keyword>>, body)
    \/ variant = "github_client" /\ In(<<"VE:", keyword>>, body)

\* Lines 320-328: the verdict read from one report, None when it has none.
VerdictIn(variant, body) ==
    IF HasVerdict(variant, "APPROVE", body) THEN Some("APPROVE")
    ELSE IF HasVerdict(variant, "REQUEST_CHANGES", body) THEN Some("REQUEST_CHANGES")
    ELSE IF HasVerdict(variant, "COMMENT", body) THEN Some("COMMENT")
    ELSE None

\* Lines 312-328: the comments from the newest to the oldest; the first
\* report that has a verdict decides.
RECURSIVE FromComments(_, _)
FromComments(variant, comments) ==
    IF comments = <<>> THEN None
    ELSE LET body == comments[Len(comments)]
             older == SubSeq(comments, 1, Len(comments) - 1)
         IN IF IsReport(variant, body) /\ VerdictIn(variant, body) # None
              THEN VerdictIn(variant, body)
              ELSE FromComments(variant, older)

\* Lines 333-339: the reviews in the order of get_reviews; the first that
\* is APPROVED or CHANGES_REQUESTED decides.
RECURSIVE FromReviews(_)
FromReviews(reviews) ==
    IF reviews = <<>> THEN None
    ELSE IF Head(reviews) = "APPROVED" THEN Some("APPROVE")
    ELSE IF Head(reviews) = "CHANGES_REQUESTED" THEN Some("REQUEST_CHANGES")
    ELSE FromReviews(Tail(reviews))

\* Where the hosting API fails during one call, and with what.
VerdictFaults ==
    {[at |-> "none", exc |-> "none"]} \cup
    [at : {"get_repo", "get_pull", "get_issue_comments", "get_reviews"},
     exc : {"GithubException", "ConnectionError"}]

\* except Exception as e (line 346).
VerdictCatches(exc) == Catches("Exception", exc)

\* get_latest_ai_review_verdict (lines 303-348).
get_latest_ai_review_verdict(variant, comments, reviews, fault) ==
    IF fault.at \in {"get_repo", "get_pull", "get_issue_comments"}
      THEN IF VerdictCatches(fault.exc)
             THEN [raises |-> FALSE, ret |-> "ERROR"]
             ELSE [raises |-> TRUE, ret |-> "none"]
    ELSE IF FromComments(variant, comments) # None
      THEN [raises |-> FALSE, ret |-> FromComments(variant, comments).value]
    ELSE IF fault.at = "get_reviews"
      THEN \* the bare except of line 340 passes
           [raises |-> FALSE, ret |-> "PENDING"]
    ELSE IF FromReviews(reviews) # None
      THEN [raises |-> FALSE, ret |-> FromReviews(reviews).value]
      ELSE [raises |-> FALSE, ret |-> "PENDING"]

\* Sequences of at most n elements of S.
SeqUpTo(S, n) == UNION {[1..k -> S] : k \in 0..n}

InitVerdict ==
    /\ PipelineIdle
    /\ llm = Idle
    /\ apply = ApplyIdle
    /\ twice = TwiceIdle
    /\ app = AppIdle
    /\ conc = ConcIdle
    /\ lib = LibIdle
    /\ loop = LoopIdle
    /\ git = GitIdle
    /\ ReviewIdle
    /\ \E variant \in Variants, comments \in SeqUpTo(Bodies, MaxComments),
          reviews \in SeqUpTo(ReviewStates, MaxReviews), fault \in VerdictFaults :
         verd = [phase |-> "call", variant |-> variant, comments |-> comments,
                 reviews |-> reviews, fault |-> fault]

\* One call of the function on the pull request.
GetVerdict ==
    /\ verd.phase = "call"
    /\ LET r == get_latest_ai_review_verdict(verd.variant, verd.comments,
                                             verd.reviews, verd.fault)
       IN verd' = [phase |-> IF r.raises THEN "raised" ELSE "returned",
                   variant |-> verd.variant, comments |-> verd.comments,
                   reviews |-> verd.reviews, fault |-> verd.fault,
                   ret |-> r.ret]
    /\ UNCHANGED <<ghVars, pc, localVars, obsVars, llm, apply, twice, app, conc,
                   lib, loop, git, ci, rev>>

NextVerdict == GetVerdict

SpecVerdict == InitVerdict /\ [][NextVerdict]_vars

\* ------------- create_branch, create_pull_request and update_pull_request

\* Largest number of calls made on the repository.
MaxCalls == 4

\* What GitHub answers to create_git_ref: the ref is created, or the call is
\* refused with a message.
CreateGitRef(branches, branch_name, fault) ==
    IF fault THEN [message |-> "Server Error", branches |-> branches]
    ELSE IF branch_name \in branches
      THEN [message |-> "Reference already exists", branches |-> branches]
      ELSE [message |-> "created", branches |-> branches \cup {branch_name}]

AlreadyExistsIsRaised(message) == FALSE
\* Line 60: if "Reference already exists" in str(e).
AlreadyExistsReturns(message) == message = "Reference already exists"

\* create_branch (lines 41-68): True when the ref was created or exists
\* already; every other refusal is raised.
create_branch(branches, branch_name, fault) ==
    LET r == CreateGitRef(branches, branch_name, fault)
    IN [raises |-> r.message # "created" /\ ~AlreadyExistsReturns(r.message),
        branches |-> r.branches,
        created |-> r.message = "created"]

OptionalCatchesNothing(exc) == FALSE
\* Lines 174 and 180: the bare except around each optional step.
OptionalCatches(exc) == TRUE

\* Lines 170-182 of create_pull_request: the comment that links the issue,
\* then the labels, each in its own try; what was tried and what was done.
LinkAndLabel(comment_exc, labels_exc) ==
    IF comment_exc # "none" /\ ~OptionalCatches(comment_exc)
      THEN [raises |-> TRUE, commented |-> FALSE, labels_tried |-> FALSE,
            labelled |-> FALSE]
    ELSE IF labels_exc # "none" /\ ~OptionalCatches(labels_exc)
      THEN [raises |-> TRUE, commented |-> comment_exc = "none",
            labels_tried |-> TRUE, labelled |-> FALSE]
      ELSE [raises |-> FALSE, commented |-> comment_exc = "none",
            labels_tried |-> TRUE, labelled |-> labels_exc = "none"]

\* pr.html_url.
HtmlUrl(number) == <<"https://github.com/owner/repo/pull/", number>>

\* One call, as the trail of the repository keeps it.
GitCall(fn, branch, fault, raises, created, url) ==
    [fn |-> fn, branch |-> branch, fault |-> fault, raises |-> raises,
     created |-> created, url |-> url]

\* A repository with its main branch only, and no pull request.
InitGit ==
    /\ PipelineIdle
    /\ llm = Idle
    /\ apply = ApplyIdle
    /\ twice = TwiceIdle
    /\ app = AppIdle
    /\ conc = ConcIdle
    /\ lib = LibIdle
    /\ loop = LoopIdle
    /\ verd = VerdIdle
    /\ ReviewIdle
    /\ git = [phase |-> "open", branches |-> {}, pulls |-> {}, log |-> <<>>,
              effects |-> <<>>]

GitFrame == UNCHANGED <<ghVars, pc, localVars, obsVars, llm, apply, twice, app,
                        conc, lib, loop, verd, ci, rev>>

\* A call of create_branch for the branch of a task.
GitCreateBranch ==
    /\ git.phase = "open"
    /\ Len(git.log) < MaxCalls
    /\ \E task \in TaskNames, fault \in BOOLEAN :
         LET r == create_branch(git.branches, BranchName(task), fault)
         IN git' = [git EXCEPT
                      !.branches = r.branches,
                      !.log = Append(@, GitCall("create_branch", BranchName(task),
                                                fault, r.raises, r.created, None))]
    /\ GitFrame

\* A call of create_pull_request for the branch of a task; GitHub refuses a
\* pull request whose head branch does not exist. On a pull request that
\* was just created the comment and the labels are tried, and git.effects
\* keeps, by the number of the pull request, what became of them.
GitCreatePull ==
    /\ git.phase = "open"
    /\ Len(git.log) < MaxCalls
    /\ \E task \in TaskNames, fault \in BOOLEAN,
          comment_exc \in {"none", "GithubException"},
          labels_exc \in {"none", "GithubException"} :
         LET branch == BranchName(task)
             refused == fault \/ branch \notin git.branches
             r == create_pull_request(git.pulls, branch, refused)
             side == LinkAndLabel(comment_exc, labels_exc)
             raises == r.raises \/ (r.created /\ side.raises)
         IN git' = [git EXCEPT
                      !.pulls = r.pulls,
                      !.effects = IF r.created THEN Append(@, side) ELSE @,
                      !.log = Append(@, GitCall("create_pull_request", branch,
                                                refused, raises, r.created,
                                                IF raises THEN None
                                                ELSE Some(HtmlUrl(r.pr.value))))]
    /\ GitFrame

\* A call of update_pull_request for the branch of a task.
GitUpdatePull ==
    /\ git.phase = "open"
    /\ Len(git.log) < MaxCalls
    /\ \E task \in TaskNames, fault \in BOOLEAN :
         LET branch == BranchName(task)
             r == update_pull_request(git.pulls, branch, fault)
         IN git' = [git EXCEPT
                      !.log = Append(@, GitCall("update_pull_request", branch,
                                                fault, r.raises, FALSE,
                                                IF r.raises THEN None
                                                ELSE Some(HtmlUrl(r.pr.value))))]
    /\ GitFrame

NextGit ==
    \/ GitCreateBranch
    \/ GitCreatePull
    \/ GitUpdatePull

SpecGit == InitGit /\ [][NextGit]_vars

\* --------------------------------------------------------- check_ci_status

\* Largest number of commit statuses of the head commit.
MaxStatuses == 3

\* The states GitHub gives a commit status.
StatusStates == {"success", "pending", "failure", "error"}

\* Where the hosting API fails during one call, and with what.
CiFaults ==
    {[at |-> "none", exc |-> "none"]} \cup
    [at : {"get_repo", "get_pull", "get_commit", "get_statuses"},
     exc : {"GithubException", "ConnectionError"}]

\* The number of statuses in this state (the counters of the for loop).
CountOf(statuses, state) == Len(SelectSeq(statuses, LAMBDA st : st = state))

\* The counters of the ci_status dict after the loop over the statuses.
CiCounts(statuses) ==
    [total |-> Len(statuses),
     success |-> CountOf(statuses, "success"),
     pending |-> CountOf(statuses, "pending"),
     failure |-> CountOf(statuses, "failure")]

OverallPendingFirst(c) ==
    IF c.pending > 0 THEN "pending"
    ELSE IF c.failure > 0 THEN "failure"
    ELSE IF c.success > 0 THEN "success"
    ELSE "no_checks"
\* reviewer_agent.py lines 122-130: the overall status from the counters.
Overall(c) ==
    IF c.failure > 0 THEN "failure"
    ELSE IF c.pending > 0 THEN "pending"
    ELSE IF c.success > 0 THEN "success"
    ELSE "no_checks"

\* coding_agent.py lines 367 and 391-399: the dict starts with the overall
\* status "pending", which the if chain then replaces.
OverallCoding(c) ==
    LET preset == "pending"
    IN IF c.failure > 0 THEN "failure"
       ELSE IF c.pending > 0 THEN "pending"
       ELSE IF c.success > 0 THEN "success"
       ELSE "no_checks"

\* except Exception as e of check_ci_status (lines 134 and 403).
CiCatches(exc) == Catches("Exception", exc)

\* The dict returned from the except branch has no counters.
CiError == [raises |-> FALSE, overall |-> "error", counts |-> None]

\* check_ci_status of reviewer_agent.py (lines 88-136).
check_ci_status(statuses, fault) ==
    IF fault.at # "none"
      THEN IF CiCatches(fault.exc) THEN CiError
           ELSE [raises |-> TRUE, overall |-> "none", counts |-> None]
      ELSE [raises |-> FALSE, overall |-> Overall(CiCounts(statuses)),
            counts |-> Some(CiCounts(statuses))]

\* check_ci_status of coding_agent.py (lines 351-405).
check_ci_status_coding(statuses, fault) ==
    IF fault.at # "none"
      THEN IF CiCatches(fault.exc) THEN CiError
           ELSE [raises |-> TRUE, overall |-> "none", counts |-> None]
      ELSE [raises |-> FALSE, overall |-> OverallCoding(CiCounts(statuses)),
            counts |-> Some(CiCounts(statuses))]

InitCI ==
    /\ PipelineIdle
    /\ llm = Idle
    /\ apply = ApplyIdle
    /\ twice = TwiceIdle
    /\ app = AppIdle
    /\ conc = ConcIdle
    /\ lib = LibIdle
    /\ loop = LoopIdle
    /\ verd = VerdIdle
    /\ git = GitIdle
    /\ rev = RevIdle
    /\ \E statuses \in SeqUpTo(StatusStates, MaxStatuses), fault \in CiFaults :
         ci = [phase |-> "call", statuses |-> statuses, fault |-> fault]

\* The two copies of the function called on the same pull request.
CheckCI ==
    /\ ci.phase = "call"
    /\ ci' = [phase |-> "returned", statuses |-> ci.statuses, fault |-> ci.fault,
              reviewer |-> check_ci_status(ci.statuses, ci.fault),
              coding |-> check_ci_status_coding(ci.statuses, ci.fault)]
    /\ UNCHANGED <<ghVars, pc, localVars, obsVars, llm, apply, twice, app, conc,
                   lib, loop, verd, git, rev>>

NextCI == CheckCI

SpecCI == InitCI /\ [][NextCI]_vars

\* ------------------------------------- the reviewer and the pull request

\* Largest number of revisions published on the pull request.
MaxRevisions == 2

\* The verdict strings an LLM reply may carry: the two the prompt asks for,
\* and others ("APPROVED" is "APPROVE" followed by "D").
VerdictStrings ==
    { <<"APPROVE">>, <<"REQUEST_CHANGES">>, <<"COMMENT">>, <<"APPROVE", "D">>,
      <<"approve">> }

\* What the DeepSeek call gives: it raises, its content is not JSON, or it is
\* a JSON object, with or without the keys "verdict" and "issues_found".
DeepSeekReplies ==
    [kind : {"raises", "not_json"}, verdict : {None}, issues : {FALSE}] \cup
    [kind : {"object"}, verdict : {None} \cup {Some(v) : v \in VerdictStrings},
     issues : BOOLEAN]

\* Lines 203-214: the reserve answer of analyze_with_ai.
Fallback == [verdict |-> Some(<<"REQUEST_CHANGES">>), failed |-> TRUE]

CiOverridesNever(overall) == FALSE
\* Line 197: if ci_status.get("overall") == "failure".
CiOverrides(overall) == overall = "failure"

\* analyze_with_ai (lines 139-214): the reply of the LLM as a dict; a failed
\* CI replaces its verdict and adds to its list of issues (a KeyError when
\* the reply has none); every exception gives the reserve answer.
analyze_with_ai(reply, overall) ==
    IF reply.kind # "object" THEN Fallback
    ELSE IF CiOverrides(overall)
      THEN IF reply.issues
             THEN [verdict |-> Some(<<"REQUEST_CHANGES">>), failed |-> FALSE]
             ELSE Fallback
      ELSE [verdict |-> reply.verdict, failed |-> FALSE]

\* analyze_pull_request (lines 219-245): the issue and the pull request are
\* read (a failure leaves the function), then the CI status, then the LLM;
\* the verdict is that of the analysis, REQUEST_CHANGES when it has none.
analyze_pull_request(data_fault, statuses, ci_fault, reply) ==
    IF data_fault
      THEN [raises |-> TRUE, verdict |-> <<>>, overall |-> "none", failed |-> FALSE]
      ELSE LET ci_status == check_ci_status(statuses, ci_fault)
               ai_analysis == analyze_with_ai(reply, ci_status.overall)
           IN [raises |-> FALSE,
               verdict |-> IF ai_analysis.verdict = None
                             THEN <<"REQUEST_CHANGES">>
                             ELSE ai_analysis.verdict.value,
               overall |-> ci_status.overall,
               failed |-> ai_analysis.failed]

\* Lines 258-311: the comment of post_review_to_pr: the header of the
\* report, the verdict line closed by "**", the summary and the sections
\* that follow, the last of which names the reviewer.
ReportBody(verdict) ==
    <<"HDR", "V:">> \o verdict \o <<"**", "text", "AIR", "text">>

\* Lines 317-327: the event of the review that is created.
ReviewEvent(verdict) ==
    IF verdict = <<"APPROVE">> THEN "APPROVE" ELSE "REQUEST_CHANGES"

\* The state GitHub gives a review created with this event.
ReviewState(event) ==
    IF event = "APPROVE" THEN "APPROVED" ELSE "CHANGES_REQUESTED"

ExitCodeAlwaysOne(verdict) == 1
\* Line 367: sys.exit(0 if review['verdict'] == 'APPROVE' else 1).
ExitCode(verdict) == IF verdict = <<"APPROVE">> THEN 0 ELSE 1

\* Line 369: except Exception as e, around the body of main; the SystemExit
\* of line 367 is raised inside of it.
MainCatches(exc) == Catches("Exception", exc)

\* The exit status of the process when exc leaves the try block of main.
ExitOf(exc, code) == IF MainCatches(exc) THEN 1 ELSE code

\* Lines 213-224 of coding_agent.py: the comment of update_pull_request.
UpdateBody == <<"text", "AIR", "text">>

\* Line 172 of coding_agent.py: the comment that links the issue.
LinkBody == <<"text">>

\* No run of the reviewer yet.
NoRun ==
    [pc |-> "idle", about |-> 0, test |-> FALSE, raised |-> FALSE,
     verdict |-> <<>>, overall |-> "none", reply |-> None, commented |-> FALSE, reviewed |-> FALSE, exit |-> None]

\* A pull request that is about to be opened.
InitReview ==
    /\ PipelineIdle
    /\ llm = Idle
    /\ apply = ApplyIdle
    /\ twice = TwiceIdle
    /\ app = AppIdle
    /\ conc = ConcIdle
    /\ lib = LibIdle
    /\ loop = LoopIdle
    /\ verd = VerdIdle
    /\ git = GitIdle
    /\ ci = CiIdle
    /\ rev = [pc |-> "open", revision |-> 0, comments |-> <<>>, reviews |-> <<>>,
              run |-> NoRun, posted |-> None, poll |-> None]

ReviewFrame == UNCHANGED <<ghVars, pc, localVars, obsVars, llm, apply, twice, app,
                           conc, lib, loop, verd, git, ci>>

\* The coding side publishes a revision: create_pull_request the first time,
\* update_pull_request afterwards; each leaves its comment. A run of the
\* reviewer that has exited is forgotten.
CodingPublish ==
    /\ rev.pc = "open"
    /\ rev.revision < MaxRevisions
    /\ rev' = [rev EXCEPT
                 !.revision = @ + 1,
                 !.poll = None,
                 !.run = IF @.pc = "exited"
                           THEN [NoRun EXCEPT !.about = rev.run.about] ELSE @,
                 !.comments = Append(@, [body |-> IF rev.revision = 0
                                                    THEN LinkBody ELSE UpdateBody,
                                         about |-> rev.revision + 1])]
    /\ ReviewFrame

\* The reviewer has reported on this revision.
ReportedOn(revision) ==
    \/ \E k \in 1..Len(rev.comments) :
         /\ rev.comments[k].about = revision
         /\ IsReport("coding_agent", rev.comments[k].body)
    \/ \E k \in 1..Len(rev.reviews) : rev.reviews[k].about = revision

\* The coding side reads the verdict back with get_latest_ai_review_verdict;
\* rev.poll is what it read since the pull request last changed.
CodingPoll ==
    /\ rev.pc = "open"
    /\ rev.revision > 0
    /\ \E fault \in {[at |-> "none", exc |-> "none"],
                     [at |-> "get_pull", exc |-> "GithubException"]} :
         LET bodies == [k \in 1..Len(rev.comments) |-> rev.comments[k].body]
             states == [k \in 1..Len(rev.reviews) |-> rev.reviews[k].state]
             r == get_latest_ai_review_verdict("coding_agent", bodies, states, fault)
         IN rev' = [rev EXCEPT
                      !.poll = Some([ret |-> r.ret, fault |-> fault.at,
                                     revision |-> rev.revision,
                                     fresh |-> ReportedOn(rev.revision),
                                     posted |-> rev.posted])]
    /\ ReviewFrame

\* main, lines 347-353: a publish starts the reviewer on the new revision,
\* unless a run was still under way; analyze_pull_request runs, and in test
\* mode the process exits at once.
ReviewerAnalyze ==
    /\ rev.pc = "open"
    /\ rev.run.pc = "idle"
    /\ rev.run.about < rev.revision
    /\ \E test \in BOOLEAN, data_fault \in BOOLEAN,
          statuses \in SeqUpTo(StatusStates, 1),
          ci_fault \in {[at |-> "none", exc |-> "none"],
                        [at |-> "get_statuses", exc |-> "GithubException"]},
          reply \in DeepSeekReplies :
         /\ LET review == analyze_pull_request(data_fault, statuses, ci_fault, reply)
                run == [NoRun EXCEPT !.about = rev.revision, !.test = test,
                                     !.raised = review.raises,
                                     !.verdict = review.verdict,
                                     !.overall = review.overall,
                                     !.reply = IF review.raises THEN None
                                               ELSE Some([kind |-> reply.kind,
                                                          verdict |-> reply.verdict])]
            IN IF review.raises
                 THEN rev' = [rev EXCEPT !.run = [run EXCEPT
                                !.pc = "exited",
                                !.exit = Some(ExitOf("GithubException", 1))]]
               ELSE IF test
                 THEN rev' = [rev EXCEPT !.run = [run EXCEPT
                                !.pc = "exited",
                                !.exit = Some(ExitOf("SystemExit",
                                                     ExitCode(review.verdict)))]]
                 ELSE rev' = [rev EXCEPT !.run = [run EXCEPT !.pc = "comment"]]
    /\ ReviewFrame

\* post_review_to_pr, lines 252-314: the report is left as a comment.
ReviewerComment ==
    /\ rev.run.pc = "comment"
    /\ \E fault \in BOOLEAN :
         IF fault
           THEN rev' = [rev EXCEPT !.run.pc = "exited", !.run.raised = TRUE,
                                   !.run.exit = Some(ExitOf("GithubException", 1))]
           ELSE rev' = [rev EXCEPT
                          !.run.pc = "review", !.run.commented = TRUE,
                          !.posted = None, !.poll = None,
                          !.comments = Append(@, [body |-> ReportBody(rev.run.verdict),
                                                  about |-> rev.run.about])]
    /\ ReviewFrame

\* post_review_to_pr, lines 316-329, and main, line 367: the review is
\* created and the process exits with the status of the verdict.
ReviewerReview ==
    /\ rev.run.pc = "review"
    /\ \E fault \in BOOLEAN :
         IF fault
           THEN rev' = [rev EXCEPT !.run.pc = "exited", !.run.raised = TRUE,
                                   !.run.exit = Some(ExitOf("GithubException", 1))]
           ELSE LET event == ReviewEvent(rev.run.verdict)
                IN rev' = [rev EXCEPT
                             !.run.pc = "exited", !.run.reviewed = TRUE,
                             !.poll = None,
                             !.run.exit = Some(ExitOf("SystemExit",
                                                      ExitCode(rev.run.verdict))),
                             !.posted = Some([verdict |-> rev.run.verdict,
                                              event |-> event]),
                             !.reviews = Append(@, [state |-> ReviewState(event),
                                                    about |-> rev.run.about])]
    /\ ReviewFrame

NextReview ==
    \/ CodingPublish
    \/ CodingPoll
    \/ ReviewerAnalyze
    \/ ReviewerComment
    \/ ReviewerReview

SpecReview == InitReview /\ [][NextReview]_vars

\* =================================================================== claims

Last(seq) == seq[Len(seq)]

IsPrefix(s, t) == Len(s) <= Len(t) /\ \A k \in 1..Len(s) : s[k] = t[k]

RECURSIVE SumSeq(_)
SumSeq(s) == IF s = <<>> THEN 0 ELSE s[1] + SumSeq(Tail(s))

\* The order of the steps of one execution.
ExpectedSteps ==
    (IF task_details.round > 1 THEN <<"fetch">> ELSE <<>>)
    \o <<"generate", "publish", "pages", "settle", "notify">>

\* The k-th POST was answered with status 200.
Is200(k) == posts[k].answer.exc = "none" /\ posts[k].answer.status = 200

\* The k-th POST was answered with another status.
IsNon200(k) == posts[k].answer.exc = "none" /\ posts[k].answer.status # 200

\* The backoff delays slept before the k-th POST was sent.
BackoffsBefore(k) ==
    LET before == SubSeq(sleeps, 1, posts[k].sleeps)
        backoff == SelectSeq(before, LAMBDA s : s.at = "notify")
    IN [j \in 1..Len(backoff) |-> backoff[j].secs]

\* The published files are those of the artifact.
IsFallbackPage(content) ==
    \E k \in 1..Len(content) : content[k] = "<h1>Auto-generation failed</h1>"

\* C1: no exception leaves handle_build_request; when a step of it raises,
\* the execution is in the fatal state with the fatal report printed, the
\* raising step is the last step that was started and it did not return.
C1_NoExceptionEscapes ==
    /\ ~escaped
    /\ pc # "escaped"
    /\ raised # NoException =>
         /\ pc = "fatal"
         /\ report = "fatal"
         /\ raised.step \notin returned
         /\ IF raised.step = "round"
              THEN steps = <<>>
              ELSE steps # <<>> /\ Last(steps) = raised.step

C1_Witness ==
    /\ pc = "fatal"
    /\ raised = [step |-> "publish", exc |-> "GithubException"]
    /\ steps = <<"fetch", "generate", "publish">>

\* C2: the steps are started in the fixed order, the fetch only when
\* round > 1, each one after the previous one returned, and a POST to the
\* evaluation URL is made only when publish and hosting enablement have
\* succeeded: the files are in the repository and Pages is enabled.
C2_StepOrder ==
    /\ IsPrefix(steps, ExpectedSteps)
    /\ \A k \in 2..Len(steps) : steps[k - 1] \in returned
    /\ posts # <<>> =>
         /\ {"generate", "publish", "pages", "settle"} \subseteq returned
         /\ repoExists
         /\ {Paths[k] : k \in 1..Len(Paths)} \subseteq DOMAIN repoFiles
         /\ pagesEnabled
         /\ sleeps[1] = [at |-> "settle", secs |-> 20]

C2_Witness ==
    /\ posts # <<>>
    /\ steps = <<"fetch", "generate", "publish", "pages", "settle", "notify">>

\* C3: at most 5 POSTs are made; the call returns at the first answer with
\* status 200 and no POST follows it; after any other status or a request
\* exception the loop goes on, and only after 5 attempts does it raise.
C3_AtMostFivePosts ==
    /\ Len(posts) <= 5
    /\ \A k \in 1..Len(posts) :
         Is200(k) => k = Len(posts) /\ pc = "done" /\ "notify" \in returned
    /\ pc = "done" => posts # <<>> /\ Is200(Len(posts))
    /\ (posts # <<>> /\ ~Is200(Len(posts))) =>
         /\ pc \in {"notify", "fatal"}
         /\ pc = "notify" => notify_i = Len(posts)
         /\ (pc = "notify" /\ Len(posts) < 5) => ENABLED NotifyAttempt
         /\ pc = "fatal" => Len(posts) = 5 /\ raised.step = "notify"

C3_Witness ==
    /\ Len(posts) = 3
    /\ posts[1].answer.exc = "ConnectionError"
    /\ IsNon200(2)
    /\ Is200(3)
    /\ pc = "done"

\* C4: the backoff slept before attempt i is 2^i, also before the first
\* attempt: before the k-th POST the delays are 1, 2, .., 2^(k-1), strictly
\* increasing, and they add up to 2^k - 1.
C4_Backoff ==
    \A k \in 1..Len(posts) :
        LET d == BackoffsBefore(k)
        IN /\ Len(d) = k
           /\ \A j \in 1..k : d[j] = 2 ^ (j - 1)
           /\ \A j \in 2..k : d[j] > d[j - 1]
           /\ SumSeq(d) = 2 ^ k - 1

C4_Witness ==
    /\ Len(posts) = 5
    /\ BackoffsBefore(5) = <<1, 2, 4, 8, 16>>

\* C5: when 5 POSTs were made and none was answered with 200, the call
\* raises: the execution ends fatal with the exception of line 363, success
\* is not reported, and no further POST and no second run of a step follows.
C5_ExhaustedIsFatal ==
    (Len(posts) >= 5 /\ \A k \in 1..5 : ~Is200(k)) =>
        /\ Len(posts) = 5
        /\ pc \in {"notify", "fatal"}
        /\ pc = "notify" => ENABLED NotifyExhausted /\ ~ENABLED NotifyAttempt
        /\ pc = "fatal" => raised = [step |-> "notify", exc |-> "Exception"]
        /\ report # "success"
        /\ "notify" \notin returned
        /\ steps = ExpectedSteps

C5_Witness ==
    /\ Len(posts) = 5
    /\ \A k \in 1..5 : ~Is200(k)
    /\ pc = "fatal"
    /\ report = "fatal"

\* The sink answers the first 4 POSTs with another status and the 5th with 200.
ScenarioD ==
    /\ Len(posts) = 5
    /\ \A k \in 1..4 : IsNon200(k)
    /\ Is200(5)

\* C6 as stated: in scenario D success is reported and the backoff delays
\* before the 5th POST are exactly 1, 2, 4, 8.
C6_Original ==
    ScenarioD => report = "success" /\ BackoffsBefore(5) = <<1, 2, 4, 8>>

\* C6, amended: in scenario D success is reported and the backoff delays
\* before the 5th POST are exactly 1, 2, 4, 8, 16: the 16 s wait of the
\* 5th attempt comes before its POST.
C6_ScenarioD ==
    ScenarioD =>
        /\ report = "success"
        /\ pc = "done"
        /\ BackoffsBefore(5) = <<1, 2, 4, 8, 16>>
        /\ BackoffsBefore(4) = <<1, 2, 4, 8>>

C6_Witness == ScenarioD /\ pc = "done"

\* The sink has answered a POST of the payload: it has received it.
Received == \E k \in 1..Len(posts) : posts[k].answer.exc = "none"

\* The request body is of the documented shape: round is an integer and
\* the attachments are a list of objects.
WellFormedTask ==
    task_details.round_is_int /\ task_details.attachments # "not_a_dict"

\* C7 as stated: the sink eventually receives the payload of every accepted
\* (well-formed) task.
C7_Original == WellFormedTask => <>Received

\* C7, amended: the execution of an accepted task eventually has its payload
\* received by the sink, or has ended fatal because the round check,
\* generate, publish or hosting enablement raised (nothing is sent), or has
\* ended fatal after 5 POSTs that all failed with a request exception.
C7_EventuallyReceivedOrFatal ==
    <>(\/ Received
       \/ /\ pc = "fatal"
          /\ raised.step \in {"round", "generate", "publish", "pages"}
          /\ posts = <<>>
       \/ /\ pc = "fatal"
          /\ raised.step = "notify"
          /\ Len(posts) = 5
          /\ \A k \in 1..5 : posts[k].answer.exc # "none")

C7_Witness == Received /\ pc = "done" /\ Len(posts) = 2

\* C8: when the model call or the post-processing of its response raises,
\* generate_code_with_gemini does not raise and returns exactly index.html,
\* README.md and LICENSE, index.html being the non-empty fallback page.
C8_FallbackTotal ==
    genOutcome \in {"raise_call", "raise_post"} =>
        /\ raised.step # "generate"
        /\ "generate" \in returned
        /\ pc = "pub_get_repo" =>
             /\ [k \in 1..Len(generated_files) |-> generated_files[k].path] = Paths
             /\ generated_files[1].content # <<>>
             /\ IsFallbackPage(generated_files[1].content)

C8_Witness ==
    /\ genOutcome = "raise_post"
    /\ pc = "pub_get_repo"
    /\ generated_files[1].content = safe_error_html

\* C9: when the generator raised, the execution goes on: what publish leaves
\* in the repository is the non-empty fallback page with README.md and
\* LICENSE, and hosting, settle and notify follow in the usual order.
C9_FallbackPublished ==
    genOutcome \in {"raise_call", "raise_post"} =>
        /\ raised.step # "generate"
        /\ IsPrefix(steps, ExpectedSteps)
        /\ "publish" \in returned =>
             /\ DOMAIN repoFiles = {"index.html", "README.md", "LICENSE"}
             /\ repoFiles["index.html"] # <<>>
             /\ IsFallbackPage(repoFiles["index.html"])
             /\ repoFiles["README.md"] = readme_content
             /\ repoFiles["LICENSE"] = license_content
        /\ pc = "done" =>
             /\ steps = ExpectedSteps
             /\ {"publish", "pages", "settle", "notify"} \subseteq returned
             /\ pagesEnabled
             /\ sleeps[1].secs = 20
             /\ Is200(Len(posts))

C9_Witness ==
    /\ genOutcome = "raise_call"
    /\ pc = "done"
    /\ repoFiles["index.html"] = safe_error_html

\* C10: every result of generate_code_changes holds at least one file entry
\* with a path and a content: after an HTTP error, a timeout, invalid JSON,
\* and when the reply parses, also without a "changes" key.
C10_AtLeastOneFile ==
    llm.phase = "returned" =>
        /\ Len(llm.result.changes) >= 1
        /\ \A k \in 1..Len(llm.result.changes) :
             /\ llm.result.changes[k].file_path # ""
             /\ llm.result.changes[k].new_content # <<>>

\* The calls made on the repository so far are exactly these, in order.
CallsStartWith(calls) == IsPrefix(calls, ghCalls)

\* C11: when get_repo finds no repository, create_repo and then create_file
\* of the first file (index.html) are the next two calls, before any
\* get_contents or update_file; update_file is only called right after a
\* get_contents of the same path that found the file, so never on a
\* repository without files.
C11_CreateBeforeUpdate ==
    /\ pc = "pub_create_repo" => ghCalls = <<Call("get_repo", "task")>>
    /\ is_new_repo =>
         /\ repoExists
         /\ CallsStartWith(<<Call("get_repo", "task"), Call("create_repo", "task")>>)
         /\ pc = "pub_first" => Len(ghCalls) = 2 /\ DOMAIN repoFiles = {}
         /\ Len(ghCalls) >= 3 => ghCalls[3] = Call("create_file", "index.html")
         /\ \A k \in 1..Len(ghCalls) :
              ghCalls[k].op \in {"get_contents", "update_file"} =>
                  k > 3 /\ "index.html" \in DOMAIN repoFiles
    /\ pc = "pub_update" =>
         /\ existing_file = Some(generated_files[file_idx].path)
         /\ Last(ghCalls) = Call("get_contents", generated_files[file_idx].path)
         /\ generated_files[file_idx].path \in DOMAIN repoFiles
    /\ \A k \in 1..Len(ghCalls) :
         ghCalls[k].op = "update_file" =>
             /\ k > 1
             /\ ghCalls[k - 1] = Call("get_contents", ghCalls[k].path)
             /\ DOMAIN repoFiles # {}

C11_Witness ==
    /\ is_new_repo
    /\ pc = "pages"
    /\ \E k \in 1..Len(ghCalls) : ghCalls[k].op = "get_contents"

\* The repository holds the path with exactly this content.
Holds(files, entry) ==
    entry.path \in DOMAIN files /\ files[entry.path] = entry.content

\* C12: after create_or_update_repo has returned, index.html, README.md and
\* LICENSE are in the repository, each with exactly the content the
\* generated artifact has for it, whatever the repository held before
\* (nothing, no file, some or all of these paths).
C12_PublishedEqualsArtifact ==
    "publish" \in returned =>
        /\ [k \in 1..Len(artifact) |-> artifact[k].path] = Paths
        /\ \A k \in 1..Len(artifact) : Holds(repoFiles, artifact[k])
        /\ repoExists
        /\ repo_info # None

\* The repository held some of the paths: one file updated, one created.
C12_Witness ==
    /\ "publish" \in returned
    /\ ~is_new_repo
    /\ \E k \in 1..Len(ghCalls) : ghCalls[k] = Call("update_file", "index.html")
    /\ \E k \in 1..Len(ghCalls) : ghCalls[k] = Call("create_file", "LICENSE")
    /\ repoFiles["index.html"] = NewHtml

\* The calls of the second call of the publish function.
SecondCalls(calls) == SubSeq(calls, twice.calls_before + 1, Len(calls))

\* The calls get a file of each entry and update it, in the order of the dict.
UpdatesEvery(calls, files) ==
    /\ Len(calls) = 2 * Len(files)
    /\ \A k \in 1..Len(files) :
         /\ calls[2 * k - 1] = Call("get_contents", files[k].path)
         /\ calls[2 * k] = Call("update_file", files[k].path)

\* C13: a second call of create_or_update_repo, and of apply_code_changes,
\* with the artifact of a first call that returned meets no call that the
\* repository refuses: it creates nothing and finds every file; when it
\* returns it has updated every file of the dict it was given and the files
\* of the repository are those the first call left.
C13_TwiceIsOnce ==
    twice.call = 2 =>
        /\ twice.fn = "create_or_update_repo" =>
             /\ repoExists
             /\ ~is_new_repo
             /\ pc \notin {"pub_create_repo", "pub_first", "pub_create"}
             /\ \A k \in 1..Len(SecondCalls(ghCalls)) :
                  SecondCalls(ghCalls)[k].op \notin {"create_repo", "create_file"}
             /\ pc = "pub_update" =>
                  generated_files[file_idx].path \in DOMAIN repoFiles
             /\ (pc = "pub_files" /\ file_idx > Len(generated_files)) =>
                  repoHead > 0
             /\ pc = "pages" =>
                  /\ repoFiles = twice.after_first
                  /\ \A k \in 1..Len(artifact) : Holds(repoFiles, artifact[k])
                  /\ LET calls == SecondCalls(ghCalls)
                     IN /\ calls[1] = Call("get_repo", "task")
                        /\ UpdatesEvery(SubSeq(calls, 2, Len(calls) - 1),
                                        generated_files)
                        /\ Last(calls) = Call("get_branch", "main")
        /\ twice.fn = "apply_code_changes" =>
             /\ repoExists
             /\ \A k \in 1..Len(SecondCalls(apply.calls)) :
                  SecondCalls(apply.calls)[k].op # "create_file"
             /\ (apply.pc = "loop" /\ apply.idx <= Len(apply.files_to_change)) =>
                  apply.files_to_change[apply.idx].path \in DOMAIN repoFiles
             /\ apply.pc = "returned" =>
                  /\ repoFiles = twice.after_first
                  /\ \A k \in 1..Len(apply.files_to_change) :
                       Holds(repoFiles, apply.files_to_change[k])
                  /\ apply.files_processed = Len(apply.files_to_change)
                  /\ LET calls == SecondCalls(apply.calls)
                     IN /\ calls[1] = Call("get_repo", "task")
                        /\ UpdatesEvery(Tail(calls), apply.files_to_change)

\* The first call created the repository, the second one has returned.
C13_Witness ==
    /\ twice.fn = "create_or_update_repo"
    /\ twice.call = 2
    /\ pc = "pages"
    /\ ghCalls[2] = Call("create_repo", "task")
    /\ Len(generated_files) = 3

\* No step of an execution has run: nothing generated, published or sent.
NothingRan ==
    /\ pc = "idle"
    /\ steps = <<>>
    /\ genOutcome = "none"
    /\ ghCalls = <<>>
    /\ posts = <<>>

\* The request is a POST with a JSON object that has the seven required
\* fields and whose secret is the value MY_SECRET is set to.
Authorized(request, my_secret) ==
    /\ request.method = "POST"
    /\ request.is_json
    /\ request.json = "dict"
    /\ RequiredSet \subseteq request.names
    /\ my_secret # None
    /\ my_secret.value # ""
    /\ request.secret = my_secret.value

\* C14: an execution of handle_build_request is started only for an
\* authorized request; after a GET and after every POST answered with 400,
\* 403 or 500 no execution was started and nothing was generated, published
\* or sent.
C14_OnlyAuthorizedStarts ==
    /\ (app.dispatched > 0 \/ pc # "idle") =>
          /\ Authorized(app.request, app.my_secret)
          /\ app.dispatched = 1
    /\ ~Authorized(app.request, app.my_secret) => NothingRan
    /\ (app.phase = "responded"
          /\ (app.request.method = "GET" \/ app.response.status \in {400, 403, 500})) =>
          /\ app.dispatched = 0
          /\ NothingRan

\* A POST with the wrong secret was answered with 403.
C14_Witness ==
    /\ app.phase = "responded"
    /\ app.request.method = "POST"
    /\ app.request.names = RequiredSet
    /\ app.my_secret = Some("s3cret")
    /\ app.request.secret = "guess"
    /\ app.response.status = 403
    /\ NothingRan

\* C15: when the thread of an accepted POST is started, the response can be
\* returned at once, whatever the execution has done by then; it is 200 with
\* the same body when the execution ends in success, with the fallback page
\* or fatal, and the request has started exactly one execution.
C15_RespondsWithoutWaiting ==
    /\ app.phase = "started" =>
         /\ app.dispatched = 1
         /\ ENABLED ApiRespond
    /\ app.dispatched = 1 =>
         /\ pc # "idle"
         /\ app.phase \in {"started", "responded"}
         /\ app.phase = "responded" =>
              app.response = Response(200, "Request received and is being processed.")
    /\ app.dispatched <= 1
    /\ pc # "idle" => app.dispatched = 1

\* The response was returned and the execution ended fatal afterwards.
C15_Witness ==
    /\ app.phase = "responded"
    /\ app.dispatched = 1
    /\ app.response.status = 200
    /\ pc = "fatal"
    /\ raised.step = "publish"

\* C16: of two threads that run at once for different tasks, each one is at
\* every moment where it would be had it run alone with the same answers of
\* the services: the same position and outcome, the same files in the
\* repository of its task, the same payload; and a thread that has not ended
\* can take its next step whatever the other one has done, also when the
\* other one has ended fatal.
C16_NoInterference ==
    conc.phase = "running" =>
        \A n \in Units :
            /\ conc.units[n] = conc.alone[n].unit
            /\ conc.account[RepoName(conc.units[n].task)] = conc.alone[n].repo
            /\ Running(conc.units[n]) => ENABLED UnitRuns(n)

\* One thread has ended fatal in publish, the other has notified the sink
\* of the files it committed.
C16_Witness ==
    /\ conc.phase = "running"
    /\ conc.units[1].pc = "fatal"
    /\ conc.units[1].raised = "publish"
    /\ conc.units[2].pc = "done"
    /\ conc.units[2].payload.value.task = "task-b"
    /\ conc.account["task-b"].files["index.html"] = NewHtml

\* C17: every execution ends, in success or fatal, also when a service
\* never answers one of its calls.
C17_AlwaysTerminates == <>(pc \in {"done", "fatal"})

\* The events of the trail of the loop that are of this kind.
Events(op) == SelectSeq(loop.log, LAMBDA e : e.op = op)

\* The events of this kind of one attempt.
EventsOf(op, attempt) ==
    SelectSeq(loop.log, LAMBDA e : e.op = op /\ e.attempt = attempt)

\* C18: for one task the AttemptLoop runs at most MAX_ATTEMPTS (3)
\* generate/publish cycles, one per attempt 1..MAX_ATTEMPTS, whatever
\* verdicts the polls return.
C18_BoundedRetry ==
    loop.pc # "idle" =>
        /\ Len(Events("generate")) <= MAX_ATTEMPTS
        /\ Len(Events("publish")) <= MAX_ATTEMPTS
        /\ Len(Events("generate")) <= 3
        /\ \A k \in 1..Len(loop.log) :
             loop.log[k].op \in {"generate", "publish"} =>
                 /\ loop.log[k].attempt \in 1..MAX_ATTEMPTS
                 /\ Len(EventsOf(loop.log[k].op, loop.log[k].attempt)) = 1
        /\ loop.counter <= MAX_ATTEMPTS + 1
        /\ loop.pc \in {"generate", "publish"} => loop.counter <= MAX_ATTEMPTS

\* Three attempts were made, with changes requested, an error and a pending
\* verdict, and the run is exhausted.
C18_Witness ==
    /\ loop.pc = "exhausted"
    /\ Len(Events("generate")) = 3
    /\ Len(Events("publish")) = 3
    /\ \E k \in 1..Len(loop.log) :
         loop.log[k] = Event("poll", 1, "CHANGES_REQUESTED")
    /\ \E k \in 1..Len(loop.log) : loop.log[k] = Event("poll", 2, "ERROR")
    /\ Len(EventsOf("poll", 3)) = PollBudget

\* C19: over all attempts of a task one branch is used, the one derived
\* from the task identifier at the start, and at most one pull request is
\* created: create_pull_request is called in attempt 1 only, every later
\* attempt publishes to the same branch and goes on with the pull request
\* captured in attempt 1.
C19_OneBranchOneReview ==
    loop.pc # "idle" =>
        /\ loop.branch = BranchName(loop.task)
        /\ \A k \in 1..Len(Events("publish")) :
             Events("publish")[k].what = BranchName(loop.task)
        /\ Len(Events("create_review")) <= 1
        /\ \A k \in 1..Len(Events("create_review")) :
             /\ Events("create_review")[k].attempt = 1
             /\ loop.review = Some(Events("create_review")[k].what.pr)
        /\ \A k \in 1..Len(Events("reuse_review")) :
             /\ Events("reuse_review")[k].attempt > 1
             /\ Events("create_review") # <<>>
             /\ Events("reuse_review")[k].what.pr = Events("create_review")[1].what.pr
        /\ Cardinality(loop.pulls) <= 1
        /\ Cardinality(OpenFor(loop.pulls, loop.branch)) <= 1
        /\ loop.review # None =>
             OpenFor(loop.pulls, loop.branch) =
                 {[number |-> loop.review.value, head |-> loop.branch]}

\* Three attempts published to the branch; the pull request was created in
\* the first and reused in the second and third.
C19_Witness ==
    /\ Len(Events("publish")) = 3
    /\ Len(Events("reuse_review")) = 2
    /\ Events("create_review") =
           <<Event("create_review", 1, [pr |-> 1, created |-> TRUE])>>
    /\ loop.pulls = {[number |-> 1, head |-> BranchName(loop.task)]}

\* C20: a poll that returns APPROVED is the last thing the loop does: the
\* run is in Success and no step of the loop can follow; when the first
\* poll of attempt 1 returns APPROVED the run has made exactly one attempt:
\* one generate, one publish to the one branch, one pull request.
C20_ApprovedEndsRun ==
    loop.pc # "idle" =>
        /\ \A k \in 1..Len(loop.log) :
             loop.log[k].op = "poll" /\ loop.log[k].what = "APPROVED" =>
                 k = Len(loop.log) /\ loop.pc = "success"
        /\ loop.pc = "success" =>
             /\ Last(loop.log) = Event("poll", loop.counter, "APPROVED")
             /\ ~ENABLED NextLoop
        /\ (Events("poll") # <<>> /\ Events("poll")[1] = Event("poll", 1, "APPROVED")) =>
             /\ loop.pc = "success"
             /\ loop.counter = 1
             /\ Len(Events("generate")) = 1
             /\ Events("publish") = <<Event("publish", 1, BranchName(loop.task))>>
             /\ Len(Events("create_review")) = 1
             /\ Events("reuse_review") = <<>>
             /\ Cardinality(loop.pulls) = 1
             /\ Len(Events("poll")) = 1

\* APPROVED on the first poll of attempt 1, the pull request newly created.
C20_Witness ==
    /\ loop.pc = "success"
    /\ loop.counter = 1
    /\ Events("poll") = <<Event("poll", 1, "APPROVED")>>
    /\ Events("create_review")[1].what.created

\* The polls of the trail, as the pairs of attempt and verdict.
Polls == [k \in 1..Len(Events("poll")) |->
            <<Events("poll")[k].attempt, Events("poll")[k].what>>]

\* The verdict that ended the polling of this attempt.
VerdictOf(attempt) == Last(EventsOf("poll", attempt)).what

\* C21: with CHANGES_REQUESTED in attempt 1 and APPROVED in attempt 2 the
\* loop makes exactly 2 generate calls and 2 publish calls, both to the branch
\* of the task, creates the review request once (attempt 1) and reuses it
\* once (attempt 2), and returns Success after attempt 2; a poll that returns
\* CHANGES_REQUESTED is the last poll of its attempt.
C21_ScenarioB ==
    loop.pc # "idle" =>
        /\ \A k \in 1..Len(Events("poll")) :
             Events("poll")[k].what = "CHANGES_REQUESTED" =>
                 /\ Last(EventsOf("poll", Events("poll")[k].attempt)) = Events("poll")[k]
                 /\ loop.counter = Events("poll")[k].attempt => loop.pc = "advance"
        /\ ( /\ EventsOf("poll", 1) # <<>>
             /\ VerdictOf(1) = "CHANGES_REQUESTED"
             /\ EventsOf("poll", 2) # <<>>
             /\ VerdictOf(2) = "APPROVED" ) =>
                /\ loop.pc = "success"
                /\ loop.counter = 2
                /\ Len(Events("generate")) = 2
                /\ Events("publish") = <<Event("publish", 1, BranchName(loop.task)),
                                         Event("publish", 2, BranchName(loop.task))>>
                /\ Len(Events("create_review")) = 1
                /\ Events("create_review")[1].attempt = 1
                /\ Len(Events("reuse_review")) = 1
                /\ Events("reuse_review")[1].attempt = 2
                /\ Events("reuse_review")[1].what.pr = Events("create_review")[1].what.pr
                /\ Cardinality(loop.pulls) = 1

\* Scenario B itself: one poll per attempt, CHANGES_REQUESTED then APPROVED.
C21_Witness ==
    /\ loop.pc = "success"
    /\ Polls = << <<1, "CHANGES_REQUESTED">>, <<2, "APPROVED">> >>
    /\ Len(Events("generate")) = 2

\* Every poll of the trail returned PENDING.
StaysPending == \A k \in 1..Len(Events("poll")) : Events("poll")[k].what = "PENDING"

\* No attempt polls more often than the poll budget allows; an attempt that
\* saw only PENDING goes on polling until the budget is used up, then advances.
PollsWithinBudget ==
    loop.pc # "idle" =>
        /\ loop.polls <= PollBudget
        /\ \A a \in 1..MAX_ATTEMPTS :
             /\ Len(EventsOf("poll", a)) <= PollBudget
             /\ ( /\ StaysPending
                /\ \/ loop.counter > a
                   \/ loop.counter = a /\ loop.pc = "advance" ) =>
                    Len(EventsOf("poll", a)) = PollBudget
        /\ (StaysPending /\ loop.pc \in {"success", "exhausting", "exhausted"}) =>
             /\ loop.pc # "success"
             /\ loop.counter = MAX_ATTEMPTS + 1
             /\ Len(Events("generate")) = 3
             /\ Len(Events("publish")) = 3
             /\ Len(Events("poll")) = 3 * PollBudget

\* C22: verdict polling never blocks indefinitely: every attempt stops
\* polling when its poll budget is used up and advances; when the verdict
\* stays PENDING the loop ends Exhausted after exactly 3 attempts; and every
\* run of the loop reaches a terminal outcome.
C22_PollingTerminates ==
    /\ []PollsWithinBudget
    /\ <>(loop.pc \in {"success", "exhausted", "fatal"})

\* Scenario C: PENDING through the full budget of each of the 3 attempts.
C22_Witness ==
    /\ loop.pc = "exhausted"
    /\ StaysPending
    /\ Len(Events("poll")) = MAX_ATTEMPTS * PollBudget
    /\ Len(Events("generate")) = MAX_ATTEMPTS

\* C23: a loop that ends without Success returns Exhausted carrying the last
\* published identifier and tries to leave a note on the issue; leaving the
\* note never ends the run fatal: close_issue_with_comment never raises and
\* returns False on any failure, posts the comment before closing, and
\* leaves the issue open when the comment could not be posted or close is
\* not set.
C23_ExhaustedLeavesNote ==
    loop.pc # "idle" =>
        /\ loop.pc = "exhausted" =>
             /\ loop.published = Some(Published(BranchName(loop.task), MAX_ATTEMPTS))
             /\ loop.published.value.revision = Last(Events("publish")).attempt
             /\ loop.outcome = Some(Exhausted(loop.published))
             /\ Len(Events("note")) = 1
        /\ loop.pc = "fatal" => Events("note") = <<>>
        /\ Events("note") = <<>> => loop.issue = OpenIssue
        /\ \A k \in 1..Len(Events("note")) :
             LET note == Events("note")[k].what
             IN /\ loop.pc = "exhausted"
                /\ note.ret \in {Some(TRUE), Some(FALSE)}
                /\ note.ret = Some(TRUE) =>
                     /\ loop.issue.comments = <<"exhausted">>
                     /\ loop.issue.state = "closed" <=> note.close
                /\ note.ret = Some(FALSE) => loop.issue.state = "open"
                /\ loop.issue.state = "closed" => loop.issue.comments = <<"exhausted">>
                /\ loop.issue.comments = <<>> => loop.issue.state = "open"
                /\ ~note.close => loop.issue.state = "open"
                /\ Len(loop.issue.comments) <= 1

\* The run is exhausted and the note could not be left: posting the comment
\* failed with an exception that is not a GithubException.
C23_Witness ==
    /\ loop.pc = "exhausted"
    /\ loop.outcome = Some(Exhausted(Some(Published(BranchName(loop.task), 3))))
    /\ Events("note") # <<>>
    /\ Events("note")[1].what = [ret |-> Some(FALSE), close |-> TRUE,
                                 fault |-> "create_comment"]
    /\ loop.issue = OpenIssue

\* A call of the hosting API failed during the call of the function: the
\* reviews are asked for only when no comment decided.
ApiFailed ==
    \/ verd.fault.at \in {"get_repo", "get_pull", "get_issue_comments"}
    \/ /\ verd.fault.at = "get_reviews"
       /\ FromComments(verd.variant, verd.comments) = None

\* C24: get_latest_ai_review_verdict never raises, returns ERROR on any
\* failure of the hosting API, and otherwise returns only PENDING, the
\* approved verdict or the changes-requested verdict: a signal of the
\* reviewer outside the enum comes back as PENDING.
C24_VerdictClosed ==
    verd.phase \notin {"idle", "call"} =>
        /\ verd.phase = "returned"
        /\ ApiFailed => verd.ret = "ERROR"
        /\ ~ApiFailed => verd.ret \in {"PENDING", "APPROVE", "REQUEST_CHANGES"}

\* The reports of the reviewer among the comments, oldest first.
Reports == SelectSeq(verd.comments, LAMBDA body : IsReport(verd.variant, body))

\* C25: when the most recent report of the reviewer carries unexpected or
\* malformed verdict text, the review is classified PENDING, never approved.
C25_MalformedIsPending ==
    ( /\ verd.phase = "returned"
      /\ ~ApiFailed
      /\ Reports # <<>>
      /\ Last(Reports) \in MalformedBodies ) =>
        /\ verd.ret # "APPROVE"
        /\ verd.ret = "PENDING"

\* The steps started so far hold this one.
Started(step) == \E k \in 1..Len(steps) : steps[k] = step

\* C26: the prior index.html is fetched only when the round of the task is
\* greater than 1; a fetch that fails does not abort the execution, which
\* goes on to call generate with no prior context; for round 1 generate is
\* always called with no prior context.
C26_FetchOnlyAfterRound1 ==
    pc # "idle" =>
        /\ Started("fetch") => task_details.round_is_int /\ task_details.round > 1
        /\ fetchOutcome # "none" <=> Started("fetch")
        /\ raised.step # "fetch"
        /\ fetchOutcome = "failed" =>
             /\ existing_code = None
             /\ pc = "generate" \/ Started("generate")
        /\ fetchOutcome = "found" => existing_code = Some(OldHtml)
        /\ (task_details.round_is_int /\ task_details.round = 1) =>
             /\ existing_code = None
             /\ pc \in {"start", "generate"} \/ Started("generate")
        /\ Started("generate") =>
             (existing_code # None <=> fetchOutcome = "found")

\* Round 2, the repository holds index.html, the fetch failed all the same,
\* and generate was called without prior code and returned.
C26_Witness ==
    /\ task_details.round = 2
    /\ repoExists /\ "index.html" \in DOMAIN repoFiles
    /\ fetchOutcome = "failed"
    /\ existing_code = None
    /\ "generate" \in returned

\* The Pages API answered with this status.
PagesAnswered(status) == pagesAnswer = Some([exc |-> "none", status |-> status])

\* C27: enable_github_pages treats the answer 409 (already enabled) exactly
\* like a fresh success: it returns normally and the pipeline goes on to
\* settle and notify, so enabling hosting for a collection that has it
\* enabled never makes the execution fatal; any other failure status raises.
C27_AlreadyEnabledIsSuccess ==
    pc # "idle" =>
        /\ (PagesAnswered(201) \/ PagesAnswered(409)) =>
             /\ "pages" \in returned
             /\ raised.step # "pages"
             /\ pagesEnabled
             /\ pc = "settle" \/ Started("settle")
             /\ pc = "fatal" => raised.step = "notify"
        /\ PagesAnswered(409) => Started("pages")
        /\ (PagesAnswered(422) \/ PagesAnswered(500)) =>
             /\ "pages" \notin returned
             /\ raised = [step |-> "pages", exc |-> "HTTPError"]
             /\ pc = "fatal"
             /\ ~Started("settle")
        /\ (pagesAnswer # None /\ pagesAnswer.value.exc # "none") =>
             /\ raised = [step |-> "pages", exc |-> pagesAnswer.value.exc]
             /\ pc = "fatal"

\* A second round for a task whose hosting is enabled: the API answered 409
\* and the execution went through to its success report.
C27_Witness ==
    /\ task_details.round = 2
    /\ PagesAnswered(409)
    /\ pc = "done"
    /\ report = "success"

\* The calls of the call of apply_code_changes that is under way.
ThisCall ==
    IF twice.call = 2
      THEN SubSeq(apply.calls, twice.calls_before + 1, Len(apply.calls))
      ELSE apply.calls

\* How often the file of this path was asked for in this call.
Attempts(path) ==
    Len(SelectSeq(ThisCall, LAMBDA c : c = Call("get_contents", path)))

\* C28: in apply_code_changes a failed write of one file does not abort
\* the publish of the others: every file of files_to_change is attempted
\* exactly once, each failure is collected as an error of its file,
\* files_processed plus the number of errors is the number of files, and the
\* errors are raised together only after all files were attempted.
C28_PerFileErrors ==
    apply.pc \in {"loop", "returned", "raised"} =>
        LET n == Len(apply.files_to_change)
            attempted == IF apply.pc = "loop" THEN apply.idx - 1 ELSE n
            got_repo == apply.idx > 0
        IN /\ got_repo =>
                /\ apply.files_processed + Len(apply.errors) = attempted
                /\ \A k \in 1..n :
                     Attempts(apply.files_to_change[k].path) =
                         IF k <= attempted THEN 1 ELSE 0
                /\ \A k \in 1..Len(apply.errors) :
                     /\ \E j \in 1..attempted :
                          apply.files_to_change[j].path = apply.errors[k]
                     /\ \A j \in 1..Len(apply.errors) :
                          apply.errors[j] = apply.errors[k] => j = k
           /\ (apply.pc = "raised" /\ got_repo) =>
                /\ apply.errors # <<>>
                /\ apply.idx = n + 1
                /\ apply.files_processed + Len(apply.errors) = n
           /\ apply.pc = "returned" =>
                apply.errors = <<>> /\ apply.files_processed = n

\* The write of the first of two files failed, the second was created all
\* the same, and the call raised with the one error.
C28_Witness ==
    /\ apply.pc = "raised"
    /\ Len(apply.files_to_change) = 2
    /\ apply.errors = <<FileNames[1]>>
    /\ apply.files_processed = 1
    /\ FileNames[2] \in DOMAIN repoFiles
    /\ repoFiles[FileNames[2]] = apply.files_to_change[2].content

\* C29: every POST of one execution carries the same payload: email, task,
\* round and nonce as in the accepted task, repo_url and commit_sha as in the
\* result of the publish of this execution, pages_url made of the owner and
\* the repository name of that result; it is the same in every attempt.
C29_PayloadFixed ==
    \A k \in 1..Len(posts) :
        LET p == posts[k].payload
        IN /\ DOMAIN p = {"email", "task", "round", "nonce", "repo_url",
                           "commit_sha", "pages_url"}
           /\ p.email = task_details.email
           /\ p.task = task_details.task
           /\ p.round = task_details.round
           /\ p.nonce = task_details.nonce
           /\ repo_info # None
           /\ p.repo_url = repo_info.value.repo_url
           /\ p.commit_sha = repo_info.value.commit_sha
           /\ p.pages_url = <<"https://", repo_info.value.owner, ".github.io/",
                              repo_info.value.repo_name, "/">>
           /\ p = posts[1].payload
           /\ payload = Some(p)

\* Five POSTs were made for a task of round 2 with the second nonce, the
\* last one answered 200.
C29_Witness ==
    /\ Len(posts) = NotifyAttempts
    /\ pc = "done"
    /\ task_details.round = 2
    /\ task_details.nonce = "nonce-2"
    /\ posts[5].payload.nonce = "nonce-2"

\* The calls of this function for this branch that returned, in order.
Returned(fn, branch) ==
    SelectSeq(git.log, LAMBDA c : c.fn = fn /\ c.branch = branch /\ ~c.raises)

\* The pull requests of this branch.
PullsOf(branch) == {pr \in git.pulls : pr.head = branch}

\* C30: create_branch and create_pull_request are idempotent on "already
\* exists": a second call for the same branch creates no second branch or
\* pull request and returns, create_pull_request with the URL of the one open
\* pull request of the branch; update_pull_request never creates a pull
\* request and raises when the branch has no open one.
C30_IdempotentOnExists ==
    git.phase = "open" =>
        \A task \in TaskNames :
            LET branch == BranchName(task)
                made == Returned("create_branch", branch)
                asked == Returned("create_pull_request", branch)
                updated == Returned("update_pull_request", branch)
            IN /\ made # <<>> => branch \in git.branches
               /\ \A k \in 1..Len(made) : made[k].created <=> k = 1
               /\ \A k \in 1..Len(git.log) :
                    ( /\ git.log[k].fn \in {"create_branch", "create_pull_request"}
                      /\ git.log[k].branch = branch
                      /\ git.log[k].raises ) =>
                        /\ git.log[k].fault
                        /\ ~git.log[k].created
               /\ Cardinality(PullsOf(branch)) <= 1
               /\ asked # <<>> => Cardinality(PullsOf(branch)) = 1
               /\ \A k \in 1..Len(asked) :
                    /\ asked[k].created <=> k = 1
                    /\ asked[k].url = asked[1].url
                    /\ \E pr \in PullsOf(branch) :
                         asked[k].url = Some(HtmlUrl(pr.number))
               /\ \A k \in 1..Len(updated) :
                    /\ ~updated[k].created
                    /\ asked # <<>>
                    /\ updated[k].url = asked[1].url
               /\ (PullsOf(branch) # {}) => asked # <<>>
               /\ \A k \in 1..Len(git.log) :
                    ( /\ git.log[k].fn = "update_pull_request"
                      /\ git.log[k].branch = branch
                      /\ \A j \in 1..(k - 1) :
                           ~( /\ git.log[j].fn = "create_pull_request"
                              /\ git.log[j].branch = branch
                              /\ ~git.log[j].raises ) ) => git.log[k].raises

\* create_branch and create_pull_request were each called twice for one
\* branch and returned both times; the second calls created nothing.
C30_Witness ==
    \E task \in TaskNames :
        /\ Len(Returned("create_branch", BranchName(task))) = 2
        /\ Len(Returned("create_pull_request", BranchName(task))) = 2
        /\ Cardinality(git.pulls) = 1
        /\ git.branches = {BranchName(task)}

\* C31: publishing leaves the artifact it was given unchanged: when
\* create_or_update_repo has returned, for a new as for an existing
\* repository, the dict held by handle_build_request still has every entry
\* that generate_code_with_gemini returned, index.html among them.
C31_PublishKeepsArtifact ==
    "publish" \in returned =>
        /\ generated_files = artifact
        /\ \E k \in 1..Len(generated_files) : generated_files[k].path = "index.html"


\* The reports among the comments that carry a recognised verdict, oldest
\* first, and the reviews that approve or request changes, oldest first.
Signals ==
    SelectSeq(verd.comments,
              LAMBDA body : IsReport(verd.variant, body)
                              /\ VerdictIn(verd.variant, body) # None)

Deciding == SelectSeq(verd.reviews, LAMBDA state : state # "COMMENTED")

\* C32: get_latest_ai_review_verdict returns the latest verdict: the most
\* recent report comment with a recognised verdict decides; formal reviews
\* are consulted only when there is no such comment, and then the most
\* recent approving or change-requesting review decides; PENDING is returned
\* when there is neither.
C32_LatestSignalDecides ==
    (verd.phase = "returned" /\ verd.fault.at = "none") =>
        IF Signals # <<>>
          THEN verd.ret = VerdictIn(verd.variant, Last(Signals)).value
        ELSE IF Deciding # <<>>
          THEN verd.ret = (IF Last(Deciding) = "APPROVED" THEN "APPROVE"
                           ELSE "REQUEST_CHANGES")
        ELSE verd.ret = "PENDING"


\* C39: check_ci_status never raises; it returns the overall status "error"
\* when the hosting API fails, and otherwise "failure" when a status failed,
\* else "pending" when one is pending, else "success" when one succeeded,
\* else "no_checks"; the success, pending and failure counters never add up
\* to more than the total; the copies of coding_agent.py and
\* reviewer_agent.py return the same overall status.
C39_OverallByPriority ==
    ci.phase = "returned" =>
        /\ ci.reviewer.overall = ci.coding.overall
        /\ \A r \in {ci.reviewer, ci.coding} :
             /\ ~r.raises
             /\ IF ci.fault.at # "none" THEN r.overall = "error"
                ELSE /\ r.overall =
                          (IF \E k \in 1..Len(ci.statuses) : ci.statuses[k] = "failure"
                             THEN "failure"
                           ELSE IF \E k \in 1..Len(ci.statuses) : ci.statuses[k] = "pending"
                             THEN "pending"
                           ELSE IF \E k \in 1..Len(ci.statuses) : ci.statuses[k] = "success"
                             THEN "success"
                           ELSE "no_checks")
                     /\ LET c == r.counts.value
                        IN c.success + c.pending + c.failure <= c.total

\* A failed, a pending and a successful status together: failure wins.
C39_Witness ==
    /\ ci.phase = "returned"
    /\ ci.statuses = <<"success", "pending", "failure">>
    /\ ci.reviewer.overall = "failure"
    /\ ci.coding.overall = "failure"


\* C33: a verdict read for attempt k > 1 belongs to that attempt: after the
\* k-th publish, and until the reviewer has reported on the new revision,
\* get_latest_ai_review_verdict returns PENDING, never the verdict the
\* reviewer left for an earlier attempt.
C33_VerdictOfThisAttempt ==
    ( /\ rev.pc = "open"
      /\ rev.poll # None
      /\ rev.poll.value.fault = "none"
      /\ rev.poll.value.revision > 1
      /\ ~rev.poll.value.fresh ) =>
        /\ rev.poll.value.ret # "REQUEST_CHANGES"
        /\ rev.poll.value.ret = "PENDING"


\* analyze_pull_request has returned in the run of the reviewer.
Analyzed == rev.pc = "open" /\ rev.run.about > 0 /\ rev.run.reply # None

\* C34: analyze_pull_request returns the verdict APPROVE only if the LLM
\* analysis completed without error with the verdict APPROVE and the overall
\* CI status is not "failure"; a CI failure, an LLM or JSON error and a reply
\* without a verdict each give REQUEST_CHANGES.
C34_ApproveOnlyWhenClean ==
    Analyzed =>
        LET reply == rev.run.reply.value
        IN /\ rev.run.verdict = <<"APPROVE">> =>
                /\ reply.kind = "object"
                /\ reply.verdict = Some(<<"APPROVE">>)
                /\ rev.run.overall # "failure"
           /\ rev.run.overall = "failure" => rev.run.verdict = <<"REQUEST_CHANGES">>
           /\ reply.kind # "object" => rev.run.verdict = <<"REQUEST_CHANGES">>
           /\ reply.verdict = None => rev.run.verdict = <<"REQUEST_CHANGES">>

\* The LLM approves a pull request whose CI has failed.
C34_Witness ==
    /\ Analyzed
    /\ rev.run.reply.value.verdict = Some(<<"APPROVE">>)
    /\ rev.run.overall = "failure"
    /\ rev.run.verdict = <<"REQUEST_CHANGES">>


\* C35: what the reviewer posts agrees with what the coding side reads back:
\* for every verdict string passed to a call of post_review_to_pr that has
\* posted its comment and its review, get_latest_ai_review_verdict then
\* returns APPROVE exactly when the review was created with the event
\* APPROVE, and returns REQUEST_CHANGES for the verdict REQUEST_CHANGES.
C35_ReadBackAgrees ==
    ( /\ rev.pc = "open"
      /\ rev.poll # None
      /\ rev.poll.value.fault = "none"
      /\ rev.poll.value.posted # None ) =>
        LET posted == rev.poll.value.posted.value
        IN /\ rev.poll.value.ret = "APPROVE" <=> posted.event = "APPROVE"
           /\ posted.verdict = <<"REQUEST_CHANGES">> =>
                rev.poll.value.ret = "REQUEST_CHANGES"


C37_OptionalStepsNeverAbort ==
    git.phase = "open" =>
        /\ Len(git.effects) = Cardinality(git.pulls)
        /\ \A k \in 1..Len(git.log) :
             LET call == git.log[k]
             IN (call.fn = "create_pull_request" /\ call.created) =>
                  /\ ~call.raises
                  /\ \E pr \in git.pulls :
                       /\ pr.head = call.branch
                       /\ call.url = Some(HtmlUrl(pr.number))
                       /\ git.effects[pr.number].labels_tried

\* A pull request whose comment failed and whose labels were added.
C37_Witness ==
    /\ git.phase = "open"
    /\ \E k \in 1..Len(git.log) :
         /\ git.log[k].fn = "create_pull_request"
         /\ git.log[k].created
         /\ git.log[k].url # None
    /\ \E n \in 1..Len(git.effects) :
         ~git.effects[n].commented /\ git.effects[n].labelled


\* The repository holds, path by path, the content of this artifact.
HoldsArtifact(r, files) ==
    /\ DOMAIN r.files = {files[k].path : k \in 1..Len(files)}
    /\ \A k \in 1..Len(files) : r.files[files[k].path] = files[k].content

\* C36: when two executions for the same task overlap, neither of them ends
\* in the fatal state because of what the other one created or updated, and
\* when both are over the repository of the task exists and holds a complete
\* artifact, the model's or the fallback page's.
C36_SameTaskOverlap ==
    conc.phase = "same" =>
        /\ \A n \in Units : conc.units[n].pc # "fatal"
        /\ (\A n \in Units : ~Running(conc.units[n])) =>
             LET r == conc.account[RepoName(conc.units[1].task)]
             IN /\ r.exists
                /\ \E gen \in {"text", "raise_call"} :
                     HoldsArtifact(r, generate_code_with_gemini("none",
                                          [kind |-> gen, reply |-> NewHtml]).files)

====
